---------------------------- MODULE Spec2Model ----------------------------
(***************************************************************************)
(* A model of prismarine-physics (index.js): the FeatureList resolver, the *)
(* Physics constructor and the per-tick player simulation (simulatePlayer, *)
(* moveEntityWithHeading, moveEntity and the liquid helpers).              *)
(*                                                                         *)
(* Numbers.  The program computes in IEEE-754 binary64.  The model uses    *)
(* fixed point: every length, velocity and factor is an integer number of  *)
(* Units, one Unit being 1/10000 of a block (0.08 is 800, 0.98 is 9800).   *)
(* Products and quotients are rounded to the nearest Unit.  Math.fround    *)
(* moves 0.42 and 0.98 by less than 2e-8, far below half a Unit, so the    *)
(* float32-rounded constants are 4200 and 9800 Units.  Angles are drawn    *)
(* from a table of angles whose sine and cosine are given in Units.        *)
(***************************************************************************)
EXTENDS Integers, Sequences, FiniteSets, TLC

VARIABLES
  sim,      \* what is fixed at construction: version, features, physics, world
  player,   \* the entity (a PlayerState) the host threads through the ticks
  trace,    \* what the last call did (the moveEntity call of the last tick)
  ticks,    \* number of simulatePlayer calls made so far
  pc        \* "new" | "featured" | "built" | "failed" | "run"

vars == <<sim, player, trace, ticks, pc>>

----------------------------------------------------------------------------
(* Fixed-point arithmetic *)

\* one block, in Units
Unit == 100 * 100

Abs(a) == IF a < 0 THEN -a ELSE a
Min2(a, b) == IF a < b THEN a ELSE b
Max2(a, b) == IF a > b THEN a ELSE b

\* n / d rounded to the nearest integer, ties away from zero (d > 0)
RDiv(n, d) == IF n >= 0 THEN (n + (d \div 2)) \div d
                        ELSE -(((-n) + (d \div 2)) \div d)

\* the product of two fixed-point numbers
Mul(a, b) == RDiv(a * b, Unit)

\* the quotient of two fixed-point numbers (b # 0)
Div(a, b) == IF b > 0 THEN RDiv(a * Unit, b) ELSE -RDiv(a * Unit, -b)

\* Math.floor and Math.ceil of a fixed-point number, as a whole number
Floor(a) == a \div Unit
Ceil(a) == -((-a) \div Unit)

RECURSIVE SqrtSearch(_, _, _)
SqrtSearch(n, lo, hi) ==
  IF lo >= hi THEN lo
  ELSE LET mid == (lo + hi + 1) \div 2
       IN IF mid * mid <= n THEN SqrtSearch(n, mid, hi)
                            ELSE SqrtSearch(n, lo, mid - 1)

\* the integer square root of n, 0 <= n < 2^31
ISqrt(n) == SqrtSearch(n, 0, 46340)

\* Math.sqrt(a*a + b*b) of fixed-point numbers
Hypot(a, b) ==
  IF Abs(a) <= 30000 /\ Abs(b) <= 30000
  THEN ISqrt(a * a + b * b)
  ELSE 10 * ISqrt((a \div 10) * (a \div 10) + (b \div 10) * (b \div 10))

----------------------------------------------------------------------------
(* Vec3 and AABB (lib/aabb.js, vec3) *)

Vec(x, y, z) == [x |-> x, y |-> y, z |-> z]
VecOffset(v, dx, dy, dz) == [x |-> v.x + dx, y |-> v.y + dy, z |-> v.z + dz]

\* vec3's floored(): each component rounded down to a whole block
VecFloored(v) == [x |-> Floor(v.x) * Unit, y |-> Floor(v.y) * Unit, z |-> Floor(v.z) * Unit]

\* the lattice cell a position lies in (world.getBlock floors its argument)
CellOf(v) == <<Floor(v.x), Floor(v.y), Floor(v.z)>>

\* a vector too long for the products below, reduced by a power of ten
VecReduce(v) ==
  LET m == Max2(Abs(v.x), Max2(Abs(v.y), Abs(v.z)))
      k == IF m <= 20000 THEN 1 ELSE IF m <= 200000 THEN 10 ELSE 100
  IN [k |-> k, x |-> v.x \div k, y |-> v.y \div k, z |-> v.z \div k]

\* vec3's norm()
VecNorm(v) ==
  LET r == VecReduce(v)
  IN r.k * ISqrt(r.x * r.x + r.y * r.y + r.z * r.z)

\* vec3's normalize(): the zero vector is left as it is
VecNormalize(v) ==
  LET r == VecReduce(v)
      n == ISqrt(r.x * r.x + r.y * r.y + r.z * r.z)
  IN IF n = 0 THEN v ELSE [x |-> Div(r.x, n), y |-> Div(r.y, n), z |-> Div(r.z, n)]

AABB(x0, y0, z0, x1, y1, z1) ==
  [minX |-> x0, minY |-> y0, minZ |-> z0, maxX |-> x1, maxY |-> y1, maxZ |-> z1]

BBOffset(bb, dx, dy, dz) ==
  [minX |-> bb.minX + dx, minY |-> bb.minY + dy, minZ |-> bb.minZ + dz,
   maxX |-> bb.maxX + dx, maxY |-> bb.maxY + dy, maxZ |-> bb.maxZ + dz]

\* extend: grow toward the signed direction
BBExtend(bb, dx, dy, dz) ==
  [minX |-> IF dx < 0 THEN bb.minX + dx ELSE bb.minX,
   minY |-> IF dy < 0 THEN bb.minY + dy ELSE bb.minY,
   minZ |-> IF dz < 0 THEN bb.minZ + dz ELSE bb.minZ,
   maxX |-> IF dx < 0 THEN bb.maxX ELSE bb.maxX + dx,
   maxY |-> IF dy < 0 THEN bb.maxY ELSE bb.maxY + dy,
   maxZ |-> IF dz < 0 THEN bb.maxZ ELSE bb.maxZ + dz]

\* contract: shrink symmetrically
BBContract(bb, ax, ay, az) ==
  [minX |-> bb.minX + ax, minY |-> bb.minY + ay, minZ |-> bb.minZ + az,
   maxX |-> bb.maxX - ax, maxY |-> bb.maxY - ay, maxZ |-> bb.maxZ - az]

\* intersects: strict overlap on every axis, touching is no intersection
BBIntersects(a, b) ==
  /\ a.minX < b.maxX /\ a.maxX > b.minX
  /\ a.minY < b.maxY /\ a.maxY > b.minY
  /\ a.minZ < b.maxZ /\ a.maxZ > b.minZ

\* block.computeOffsetX(other, d): the largest part of d that other can move
\* along X without entering block; d unchanged when there is no collision
computeOffsetX(block, other, d) ==
  IF other.maxY > block.minY /\ other.minY < block.maxY
     /\ other.maxZ > block.minZ /\ other.minZ < block.maxZ
  THEN IF d > 0 /\ other.maxX <= block.minX THEN Min2(block.minX - other.maxX, d)
       ELSE IF d < 0 /\ other.minX >= block.maxX THEN Max2(block.maxX - other.minX, d)
       ELSE d
  ELSE d

computeOffsetY(block, other, d) ==
  IF other.maxX > block.minX /\ other.minX < block.maxX
     /\ other.maxZ > block.minZ /\ other.minZ < block.maxZ
  THEN IF d > 0 /\ other.maxY <= block.minY THEN Min2(block.minY - other.maxY, d)
       ELSE IF d < 0 /\ other.minY >= block.maxY THEN Max2(block.maxY - other.minY, d)
       ELSE d
  ELSE d

computeOffsetZ(block, other, d) ==
  IF other.maxX > block.minX /\ other.minX < block.maxX
     /\ other.maxY > block.minY /\ other.minY < block.maxY
  THEN IF d > 0 /\ other.maxZ <= block.minZ THEN Min2(block.minZ - other.maxZ, d)
       ELSE IF d < 0 /\ other.minZ >= block.maxZ THEN Max2(block.maxZ - other.minZ, d)
       ELSE d
  ELSE d

\* "for (const blockBB of bbs) d = blockBB.computeOffsetA(bb, d)": every step
\* moves d toward 0 or leaves it, so the loop's result does not depend on the
\* order of bbs and is the bound nearest 0
SetMax(S) == LET a == CHOOSE a \in S : \A b \in S : b <= a IN a
SetMin(S) == LET a == CHOOSE a \in S : \A b \in S : a <= b IN a

sweepX(bbs, bb, d) ==
  IF d > 0 THEN SetMin({d} \cup {computeOffsetX(b, bb, d) : b \in bbs})
  ELSE IF d < 0 THEN SetMax({d} \cup {computeOffsetX(b, bb, d) : b \in bbs})
  ELSE d

sweepY(bbs, bb, d) ==
  IF d > 0 THEN SetMin({d} \cup {computeOffsetY(b, bb, d) : b \in bbs})
  ELSE IF d < 0 THEN SetMax({d} \cup {computeOffsetY(b, bb, d) : b \in bbs})
  ELSE d

sweepZ(bbs, bb, d) ==
  IF d > 0 THEN SetMin({d} \cup {computeOffsetZ(b, bb, d) : b \in bbs})
  ELSE IF d < 0 THEN SetMax({d} \cup {computeOffsetZ(b, bb, d) : b \in bbs})
  ELSE d

----------------------------------------------------------------------------
(* The world: world.getBlock and the blocks it returns *)

\* a block's shapes are boxes local to its unit cube
FullCube == <<0, 0, 0, Unit, Unit, Unit>>

Blk(type, metadata, shapes, boundingBox, open, facing, waterlogged) ==
  [type |-> type, metadata |-> metadata, shapes |-> shapes,
   boundingBox |-> boundingBox, open |-> open, facing |-> facing,
   waterlogged |-> waterlogged, position |-> <<0, 0, 0>>]

\* the blocks a world of the model is built from, by kind
Kind(k) ==
  CASE k = "air"           -> Blk("air", 0, {}, "empty", FALSE, "none", FALSE)
    [] k = "stone"         -> Blk("stone", 0, {FullCube}, "block", FALSE, "none", FALSE)
    [] k = "slab"          -> Blk("stone_slab", 0, {<<0, 0, 0, Unit, 5000, Unit>>}, "block", FALSE, "none", FALSE)
    [] k = "wet_slab"      -> Blk("stone_slab", 0, {<<0, 0, 0, Unit, 5000, Unit>>}, "block", FALSE, "none", TRUE)
    [] k = "slime"         -> Blk("slime_block", 0, {FullCube}, "block", FALSE, "none", FALSE)
    [] k = "ice"           -> Blk("ice", 0, {FullCube}, "block", FALSE, "none", FALSE)
    [] k = "soul_sand"     -> Blk("soul_sand", 0, {<<0, 0, 0, Unit, 8750, Unit>>}, "block", FALSE, "none", FALSE)
    [] k = "honey"         -> Blk("honey_block", 0, {<<625, 0, 625, 9375, 9375, 9375>>}, "block", FALSE, "none", FALSE)
    [] k = "cobweb"        -> Blk("cobweb", 0, {}, "empty", FALSE, "none", FALSE)
    [] k = "water"         -> Blk("water", 0, {}, "empty", FALSE, "none", FALSE)
    [] k = "water3"        -> Blk("water", 3, {}, "empty", FALSE, "none", FALSE)
    [] k = "water_fall"    -> Blk("water", 8, {}, "empty", FALSE, "none", FALSE)
    [] k = "lava"          -> Blk("lava", 0, {}, "empty", FALSE, "none", FALSE)
    [] k = "ladder_n"      -> Blk("ladder", 0, {<<0, 0, 8125, Unit, Unit, Unit>>}, "block", FALSE, "north", FALSE)
    [] k = "ladder_s"      -> Blk("ladder", 0, {<<0, 0, 0, Unit, Unit, 1875>>}, "block", FALSE, "south", FALSE)
    [] k = "vine"          -> Blk("vine", 0, {}, "empty", FALSE, "none", FALSE)
    [] k = "trapdoor_n"    -> Blk("oak_trapdoor", 0, {<<0, 0, 8125, Unit, Unit, Unit>>}, "block", TRUE, "north", FALSE)
    [] k = "trapdoor_shut" -> Blk("oak_trapdoor", 0, {<<0, 0, 0, Unit, 1875, Unit>>}, "block", FALSE, "north", FALSE)
    [] k = "bubble_up"     -> Blk("bubble_column", 1, {}, "empty", FALSE, "none", FALSE)
    [] k = "bubble_down"   -> Blk("bubble_column", 0, {}, "empty", FALSE, "none", FALSE)
    [] OTHER               -> Blk("null", 0, {}, "empty", FALSE, "none", FALSE)

\* what getBlock returns for "no block here" (null)
NullBlock == [type |-> "null", metadata |-> 0, shapes |-> {}, boundingBox |-> "empty",
              open |-> FALSE, facing |-> "none", waterlogged |-> FALSE,
              position |-> <<0, 0, 0>>]

IsNull(block) == block.type = "null"

\* A world is [blocks |-> a function from some cells to kinds, rest |-> the kind of
\* every other cell]; the kind "null" is a cell getBlock has no block for.
\* world.getBlock(cell): the block with its position, or null
blockPlaced(b, cell) == IF IsNull(b) THEN NullBlock ELSE [b EXCEPT !.position = cell]

\* world.getBlock(cell): the block of the cell's kind at its position, or null
getBlockAt(world, cell) ==
  blockPlaced(Kind(IF cell \in DOMAIN world.blocks THEN world.blocks[cell] ELSE world.rest),
              cell)

\* world.getBlock(pos) for a position with fractions: the block of its cell
getBlock(world, pos) == getBlockAt(world, CellOf(pos))

\* the cells of the lattice walk "for (cursor.y = floor(minY) + below; ...)" over bb
LatticeCells(bb, below) ==
  {<<x, y, z>> : x \in Floor(bb.minX)..Floor(bb.maxX),
                 y \in (Floor(bb.minY) + below)..Floor(bb.maxY),
                 z \in Floor(bb.minZ)..Floor(bb.maxZ)}

\* the same cells in the order the three nested loops visit them: y, then z, then x
LatticeSeq(bb) ==
  LET x0 == Floor(bb.minX)
      nx == Floor(bb.maxX) - x0 + 1
      y0 == Floor(bb.minY)
      ny == Floor(bb.maxY) - y0 + 1
      z0 == Floor(bb.minZ)
      nz == Floor(bb.maxZ) - z0 + 1
  IN [i \in 1..(nx * ny * nz) |->
        <<x0 + ((i - 1) % nx),
          y0 + ((i - 1) \div (nx * nz)),
          z0 + (((i - 1) \div nx) % nz)>>]

----------------------------------------------------------------------------
(* Version strings and features.json conditions.  A string is the sequence  *)
(* of its characters, so that split(' ') and the version comparison work on *)
(* what the strings say.                                                    *)

Digits == <<"0", "1", "2", "3", "4", "5", "6", "7", "8", "9">>

\* the decimal digits of n, 0 <= n <= 99
NumChars(n) == IF n < 10 THEN <<Digits[n + 1]>>
               ELSE <<Digits[(n \div 10) + 1], Digits[(n % 10) + 1]>>

\* the version string of a tuple of numbers: <<1, 14, 1>> is "1.14.1"
RECURSIVE VStr(_)
VStr(t) == IF Len(t) = 1 THEN NumChars(t[1])
           ELSE NumChars(t[1]) \o <<".">> \o VStr(Tail(t))

\* the characters of a predicate name
PredChars(p) ==
  CASE p = ">"  -> <<">">>
    [] p = ">=" -> <<">", "=">>
    [] p = "<"  -> <<"<">>
    [] p = "<=" -> <<"<", "=">>
    [] p = "==" -> <<"=", "=">>

\* the condition string "pred version", e.g. ">= 1.14"
CondStr(p, t) == PredChars(p) \o <<" ">> \o VStr(t)

\* String.prototype.split(sep): the pieces of s between the separators
RECURSIVE SplitAt(_, _, _)
SplitAt(s, sep, cur) ==
  IF s = <<>> THEN <<cur>>
  ELSE IF Head(s) = sep THEN <<cur>> \o SplitAt(Tail(s), sep, <<>>)
  ELSE SplitAt(Tail(s), sep, Append(cur, Head(s)))

Split(s, sep) == SplitAt(s, sep, <<>>)

DigitValue(c) == CHOOSE d \in 0..9 : Digits[d + 1] = c

RECURSIVE ParseNum(_, _)
ParseNum(s, acc) == IF s = <<>> THEN acc
                    ELSE ParseNum(Tail(s), 10 * acc + DigitValue(Head(s)))

\* a version string as a release number: "1.14.1" is 1 * 10000 + 14 * 100 + 1
ReleaseNumber(s) ==
  LET parts == Split(s, ".")
      n(i) == IF i <= Len(parts) THEN ParseNum(parts[i], 0) ELSE 0
  IN n(1) * 10000 + n(2) * 100 + n(3)

\* the version object of the game data: version[predicateName](parameter)
\* compares the world's version with the version the parameter names
VersionPredicate(version, predicateName, parameter) ==
  LET a == ReleaseNumber(version.minecraftVersion)
      b == ReleaseNumber(parameter)
  IN CASE predicateName = PredChars(">")  -> a > b
       [] predicateName = PredChars(">=") -> a >= b
       [] predicateName = PredChars("<")  -> a < b
       [] predicateName = PredChars("<=") -> a <= b
       [] predicateName = PredChars("==") -> a = b

\* the version object of version t: majorVersion is its first two numbers
VersionObj(t) == [minecraftVersion |-> VStr(t), majorVersion |-> VStr(SubSeq(t, 1, 2))]

----------------------------------------------------------------------------
(* class FeatureList *)

\* FeatureList.checkVersion(version, condition) with the major version compared
\* to the whole version string instead
checkVersionWhole(version, condition) ==
  LET parts == Split(condition, " ")
  IN IF Len(parts) < 2 THEN parts[1] = version.minecraftVersion
     ELSE VersionPredicate(version, parts[1], parts[2])

\* FeatureList.checkVersion(version, condition)
checkVersion(version, condition) ==
  LET parts == Split(condition, " ")
      predicateName == parts[1]
  IN IF Len(parts) < 2 THEN predicateName = version.majorVersion
     ELSE VersionPredicate(version, predicateName, parts[2])

\* An entry of a versions list is [isArray |-> whether it is an array of
\* conditions, items |-> its conditions (the one condition of a plain string)].
\* "for (const condition of versionConditions) flag &= checkVersion(...)"
RECURSIVE andConditions(_, _, _)
andConditions(version, items, flag) ==
  IF items = <<>> THEN flag
  ELSE andConditions(version, Tail(items), flag /\ checkVersion(version, Head(items)))

\* the flag the constructor computes for one entry of a versions list
entryFlag(version, versionConditions) ==
  IF versionConditions.isArray
  THEN andConditions(version, versionConditions.items, TRUE)
  ELSE checkVersion(version, versionConditions.items[1])

\* "for (const versionConditions of versions) { ... if (flag) { add; break } }"
RECURSIVE anyEntry(_, _)
anyEntry(version, versions) ==
  IF versions = <<>> THEN FALSE
  ELSE IF entryFlag(version, Head(versions)) THEN TRUE
  ELSE anyEntry(version, Tail(versions))

\* new FeatureList(feats, version): the set this.features
RECURSIVE FeatureList(_, _)
FeatureList(feats, version) ==
  IF feats = <<>> THEN {}
  ELSE LET f == Head(feats)
       IN (IF anyEntry(version, f.versions) THEN {f.name} ELSE {})
          \cup FeatureList(Tail(feats), version)

\* supportFeature(featureName) of a FeatureList whose set is features
supportFeature(features, featureName) == featureName \in features

----------------------------------------------------------------------------
(* function Physics (mcData, world): the constants, in Units *)

gravity == 800
airdrag == 9800                \* Math.fround(1 - 0.02)
playerSpeed == 1000
sprintSpeed == 3000
sneakSpeed == 3000
stepHeight == 6000
negligeableVelocity == 30
soulsandSpeed == 4000
honeyblockSpeed == 4000
honeyblockJumpSpeed == 4000
ladderMaxSpeed == 1500
ladderClimbSpeed == 2000
playerHalfWidth == 3000
playerHeight == 18000
waterInertia == 8000
lavaInertia == 5000
liquidAcceleration == 200
airborneInertia == 9100
airborneAcceleration == 200
defaultSlipperiness == 6000
outOfLiquidImpulse == 3000
autojumpCooldown == 10
bubbleColumnSurfaceDrag == [down |-> 300, maxDown |-> -9000, up |-> 1000, maxUp |-> 18000]
bubbleColumnDrag == [down |-> 300, maxDown |-> -3000, up |-> 600, maxUp |-> 7000]
slowFalling == 1250
sprintingUUID == "662a6b8d-da3e-4c1c-8813-96ea6097278d"

\* blockSlipperiness[type] || physics.defaultSlipperiness
blockSlipperiness(type) ==
  CASE type = "slime_block" -> 8000
    [] type = "ice"         -> 9800
    [] type = "packed_ice"  -> 9800
    [] type = "frosted_ice" -> 9800
    [] type = "blue_ice"    -> 9890
    [] OTHER                -> defaultSlipperiness

\* the block ids the constructor takes from mcData.blocksByName
slimeBlockId == "slime_block"
soulsandId == "soul_sand"
honeyblockId == "honey_block"
webId == "cobweb"
waterIds == {"water", "flowing_water"}
lavaIds == {"lava", "flowing_lava"}
ladderId == "ladder"
trapdoorIds == {"iron_trapdoor", "acacia_trapdoor", "birch_trapdoor", "jungle_trapdoor",
                "oak_trapdoor", "dark_oak_trapdoor", "spruce_trapdoor", "crimson_trapdoor",
                "warped_trapdoor", "mangrove_trapdoor", "cherry_trapdoor"}
vineId == "vine"
bubblecolumnId == "bubble_column"
waterLike == {"seagrass", "tall_seagrass", "kelp", "kelp_plant", bubblecolumnId}

\* the result of a construction that threw
NoPhysics == [ok |-> FALSE, error |-> "No liquid gravity settings",
              waterGravity |-> 0, lavaGravity |-> 0]

\* the liquid gravity selection with the two branches in the other order
PhysicsProportionalFirst(features) ==
  IF supportFeature(features, "proportionalLiquidGravity")
  THEN [ok |-> TRUE, error |-> "", waterGravity |-> gravity \div 16,
        lavaGravity |-> gravity \div 4]
  ELSE IF supportFeature(features, "independentLiquidGravity")
  THEN [ok |-> TRUE, error |-> "", waterGravity |-> 200, lavaGravity |-> 200]
  ELSE NoPhysics

\* Physics(mcData, world), given the features of mcData.version: the physics
\* object with its liquid gravities, or the error thrown
Physics(features) ==
  IF supportFeature(features, "independentLiquidGravity")
  THEN [ok |-> TRUE, error |-> "", waterGravity |-> 200, lavaGravity |-> 200]
  ELSE IF supportFeature(features, "proportionalLiquidGravity")
  THEN [ok |-> TRUE, error |-> "", waterGravity |-> gravity \div 16,
        lavaGravity |-> gravity \div 4]
  ELSE NoPhysics

----------------------------------------------------------------------------
(* The collision engine *)

getPlayerBB(pos) ==
  BBOffset(AABB(-playerHalfWidth, 0, -playerHalfWidth,
                playerHalfWidth, playerHeight, playerHalfWidth),
           pos.x, pos.y, pos.z)

\* setPositionToBB(bb, pos): the position of a player whose box is bb
setPositionToBB(bb) ==
  [x |-> bb.minX + playerHalfWidth, y |-> bb.minY, z |-> bb.minZ + playerHalfWidth]

\* a shape of the block at cell, offset by the block's position
ShapeBB(shape, cell) ==
  AABB(shape[1] + cell[1] * Unit, shape[2] + cell[2] * Unit, shape[3] + cell[3] * Unit,
       shape[4] + cell[1] * Unit, shape[5] + cell[2] * Unit, shape[6] + cell[3] * Unit)

\* getSurroundingBBs(world, queryBB): the list, as the set of its members
getSurroundingBBs(world, queryBB) ==
  UNION {{ShapeBB(shape, cell) : shape \in getBlockAt(world, cell).shapes} :
           cell \in LatticeCells(queryBB, -1)}

\* one step of the sneak edge-guard: d moved toward 0 by step = 0.05
sneakShrink(d) ==
  IF d < 500 /\ d >= -500 THEN 0
  ELSE IF d > 0 THEN d - 500
  ELSE d + 500

\* "for (; dx !== 0 && getSurroundingBBs(.., offset(dx, 0, 0)).length === 0; ..)"
RECURSIVE sneakLoopX(_, _, _)
sneakLoopX(world, pos, dx) ==
  IF dx # 0 /\ getSurroundingBBs(world, BBOffset(getPlayerBB(pos), dx, 0, 0)) = {}
  THEN sneakLoopX(world, pos, sneakShrink(dx))
  ELSE dx

RECURSIVE sneakLoopZ(_, _, _)
sneakLoopZ(world, pos, dz) ==
  IF dz # 0 /\ getSurroundingBBs(world, BBOffset(getPlayerBB(pos), 0, 0, dz)) = {}
  THEN sneakLoopZ(world, pos, sneakShrink(dz))
  ELSE dz

\* "while (dx !== 0 && dz !== 0 && getSurroundingBBs(.., offset(dx, 0, dz))..."
RECURSIVE sneakLoopXZ(_, _, _, _)
sneakLoopXZ(world, pos, dx, dz) ==
  IF dx # 0 /\ dz # 0
     /\ getSurroundingBBs(world, BBOffset(getPlayerBB(pos), dx, 0, dz)) = {}
  THEN sneakLoopXZ(world, pos, sneakShrink(dx), sneakShrink(dz))
  ELSE <<dx, dz>>

\* lines 220-248 with the deltas left as they were requested
sneakGuardOff(entity, world, dx, dz) == <<dx, dz>>

\* lines 220-248: the deltas after the edge-guard (oldVelX, oldVelZ follow them)
sneakGuard(entity, world, dx, dz) ==
  IF entity.control.sneak /\ entity.onGround
  THEN sneakLoopXZ(world, entity.pos, sneakLoopX(world, entity.pos, dx),
                   sneakLoopZ(world, entity.pos, dz))
  ELSE <<dx, dz>>

\* lines 255-268 with the z sweep taken from the box before its x offset
flatMoveStaleZ(bbs, playerBB, dx, dy, dz) ==
  LET ry == sweepY(bbs, playerBB, dy)
      bbY == BBOffset(playerBB, 0, ry, 0)
      rx == sweepX(bbs, bbY, dx)
      bbX == BBOffset(bbY, rx, 0, 0)
      rz == sweepZ(bbs, bbY, dz)
  IN [dx |-> rx, dy |-> ry, dz |-> rz, bb |-> BBOffset(bbX, 0, 0, rz)]

\* lines 255-268: the flat resolution, Y then X then Z
flatMove(bbs, playerBB, dx, dy, dz) ==
  LET ry == sweepY(bbs, playerBB, dy)
      bbY == BBOffset(playerBB, 0, ry, 0)
      rx == sweepX(bbs, bbY, dx)
      bbX == BBOffset(bbY, rx, 0, 0)
      rz == sweepZ(bbs, bbX, dz)
  IN [dx |-> rx, dy |-> ry, dz |-> rz, bb |-> BBOffset(bbX, 0, 0, rz)]

\* lines 296-312: one step candidate, the box lifted by dyUp and then moved
stepCandidate(bbs, oldBB, dyUp, oldVelX, oldVelZ) ==
  LET rx == sweepX(bbs, BBOffset(oldBB, 0, dyUp, 0), oldVelX)
      rz == sweepZ(bbs, BBOffset(oldBB, rx, dyUp, 0), oldVelZ)
  IN [dx |-> rx, dy |-> dyUp, dz |-> rz, bb |-> BBOffset(oldBB, rx, dyUp, rz)]

\* lines 279-312: the two upward sweeps and the candidate after each
stepCandidates(bbs, oldBB, flat, oldVelX, oldVelZ) ==
  [c1 |-> stepCandidate(bbs, oldBB, sweepY(bbs, BBExtend(oldBB, flat.dx, 0, flat.dz), stepHeight),
                        oldVelX, oldVelZ),
   c2 |-> stepCandidate(bbs, oldBB, sweepY(bbs, oldBB, stepHeight), oldVelX, oldVelZ)]

\* lines 314-327: the candidate that went further horizontally
stepFurther(cs) ==
  IF cs.c1.dx * cs.c1.dx + cs.c1.dz * cs.c1.dz > cs.c2.dx * cs.c2.dx + cs.c2.dz * cs.c2.dz
  THEN cs.c1 ELSE cs.c2

\* lines 329-332: the candidate moved back down by the height it was lifted
stepLanded(bbs, c) ==
  LET dyDown == sweepY(bbs, c.bb, -c.dy)
  IN [dx |-> c.dx, dy |-> dyDown, dz |-> c.dz, bb |-> BBOffset(c.bb, 0, dyDown, 0)]

\* lines 334-339 with the step kept whatever its progress
stepKeepStep(flat, cand) == [res |-> cand, kept |-> TRUE, cand |-> cand]

\* lines 334-339: the flat result is kept unless the step went further
stepKeep(flat, cand) ==
  LET keepFlat == flat.dx * flat.dx + flat.dz * flat.dz >= cand.dx * cand.dx + cand.dz * cand.dz
  IN [res |-> IF keepFlat THEN flat ELSE cand, kept |-> ~keepFlat, cand |-> cand]

\* lines 274-339: the step attempt, given the flat result
stepMove(world, oldBB, flat, oldVelX, oldVelZ) ==
  stepKeep(flat,
    stepLanded(getSurroundingBBs(world, BBExtend(oldBB, oldVelX, stepHeight, oldVelZ)),
      stepFurther(
        stepCandidates(getSurroundingBBs(world, BBExtend(oldBB, oldVelX, stepHeight, oldVelZ)),
                       oldBB, flat, oldVelX, oldVelZ))))

\* lines 362-392: the block effects of the cells of the contracted box, in the
\* order of the loops; acc is [vel, isInWeb]
RECURSIVE blockEffects(_, _, _, _, _)
\* lines 366-389 with the drag of a column under water at the surface too
blockEffectNoSurface(features, block, aboveBlock, acc) ==
  LET slow == supportFeature(features, "velocityBlocksOnCollision")
              /\ block.type \in {soulsandId, honeyblockId}
      factor == IF block.type = soulsandId THEN soulsandSpeed ELSE honeyblockSpeed
      v1 == IF slow THEN [acc.vel EXCEPT !.x = Mul(@, factor), !.z = Mul(@, factor)]
            ELSE acc.vel
      v2 == IF block.type = webId \/ block.type # bubblecolumnId THEN v1
            ELSE IF block.metadata = 0
            THEN [v1 EXCEPT !.y = Max2(bubbleColumnDrag.maxDown, @ - bubbleColumnDrag.down)]
            ELSE [v1 EXCEPT !.y = Min2(bubbleColumnDrag.maxUp, @ + bubbleColumnDrag.up)]
  IN IF IsNull(block) THEN acc
     ELSE [vel |-> v2, isInWeb |-> acc.isInWeb \/ block.type = webId]

\* lines 366-389: the effect of one block of the walk; aboveBlock is the block
\* over it, which the bubble column reads
blockEffect(features, block, aboveBlock, acc) ==
  LET slow == supportFeature(features, "velocityBlocksOnCollision")
              /\ block.type \in {soulsandId, honeyblockId}
      factor == IF block.type = soulsandId THEN soulsandSpeed ELSE honeyblockSpeed
      v1 == IF slow THEN [acc.vel EXCEPT !.x = Mul(@, factor), !.z = Mul(@, factor)]
            ELSE acc.vel
      bubbleDrag == IF ~IsNull(aboveBlock) /\ aboveBlock.type = "air"
                    THEN bubbleColumnSurfaceDrag ELSE bubbleColumnDrag
      v2 == IF block.type = webId \/ block.type # bubblecolumnId THEN v1
            ELSE IF block.metadata = 0
            THEN [v1 EXCEPT !.y = Max2(bubbleDrag.maxDown, @ - bubbleDrag.down)]
            ELSE [v1 EXCEPT !.y = Min2(bubbleDrag.maxUp, @ + bubbleDrag.up)]
  IN IF IsNull(block) THEN acc
     ELSE [vel |-> v2, isInWeb |-> acc.isInWeb \/ block.type = webId]

blockEffects(features, world, cells, i, acc) ==
  IF i > Len(cells) THEN acc
  ELSE blockEffects(features, world, cells, i + 1,
                    blockEffect(features, getBlockAt(world, cells[i]),
                                getBlockAt(world, <<cells[i][1], cells[i][2] + 1, cells[i][3]>>),
                                acc))

\* lines 393-404: velocityBlocksOnTop
blockOnTopEffect(features, world, pos, vel) ==
  LET blockBelow == getBlock(world, VecOffset(VecFloored(pos), 0, -5000, 0))
  IN IF supportFeature(features, "velocityBlocksOnTop") /\ ~IsNull(blockBelow)
     THEN IF blockBelow.type = soulsandId
          THEN [vel EXCEPT !.x = Mul(@, soulsandSpeed), !.z = Mul(@, soulsandSpeed)]
          ELSE IF blockBelow.type = honeyblockId
          THEN [vel EXCEPT !.x = Mul(@, honeyblockSpeed), !.z = Mul(@, honeyblockSpeed)]
          ELSE vel
     ELSE vel

\* lines 206-214 with the slow-down applied whatever the flag
webSlowAlways(entity, dx, dy, dz) ==
  [dx |-> Mul(dx, 2500), dy |-> Mul(dy, 500), dz |-> Mul(dz, 2500), vel |-> Vec(0, 0, 0)]

\* lines 206-214: the web slow-down of the requested deltas and of the velocity
webSlow(entity, dx, dy, dz) ==
  IF entity.isInWeb
  THEN [dx |-> Mul(dx, 2500), dy |-> Mul(dy, 500), dz |-> Mul(dz, 2500), vel |-> Vec(0, 0, 0)]
  ELSE [dx |-> dx, dy |-> dy, dz |-> dz, vel |-> entity.vel]

\* line 346 without the test of the requested direction
onGroundAnyClamp(isCollidedVertically, oldVelY) == isCollidedVertically

\* line 346: entity.onGround
onGroundAfter(isCollidedVertically, oldVelY) == isCollidedVertically /\ oldVelY < 0

\* lines 350-358 with both horizontal components zeroed on any horizontal clamp
zeroVelocityBoth(vel, fin, oldVelX, oldVelY, oldVelZ, blockAtFeet, sneak) ==
  LET h == fin.dx # oldVelX \/ fin.dz # oldVelZ
  IN [x |-> IF h THEN 0 ELSE vel.x,
      y |-> IF fin.dy # oldVelY
            THEN IF ~IsNull(blockAtFeet) /\ blockAtFeet.type = slimeBlockId /\ ~sneak
                 THEN -vel.y ELSE 0
            ELSE vel.y,
      z |-> IF h THEN 0 ELSE vel.z]

\* lines 350-358 with the bounce not held back by sneaking
zeroVelocityNoSneak(vel, fin, oldVelX, oldVelY, oldVelZ, blockAtFeet, sneak) ==
  [x |-> IF fin.dx # oldVelX THEN 0 ELSE vel.x,
   y |-> IF fin.dy # oldVelY
         THEN IF ~IsNull(blockAtFeet) /\ blockAtFeet.type = slimeBlockId
              THEN -vel.y ELSE 0
         ELSE vel.y,
   z |-> IF fin.dz # oldVelZ THEN 0 ELSE vel.z]

\* lines 350-358: the velocity after a clamped move
zeroVelocity(vel, fin, oldVelX, oldVelY, oldVelZ, blockAtFeet, sneak) ==
  [x |-> IF fin.dx # oldVelX THEN 0 ELSE vel.x,
   y |-> IF fin.dy # oldVelY
         THEN IF ~IsNull(blockAtFeet) /\ blockAtFeet.type = slimeBlockId /\ ~sneak
              THEN -vel.y ELSE 0
         ELSE vel.y,
   z |-> IF fin.dz # oldVelZ THEN 0 ELSE vel.z]

\* what a tick in which moveEntity was not reached leaves in trace
NoMove ==
  [moved |-> FALSE, entryPos |-> Vec(0, 0, 0), entryOnGround |-> FALSE,
   entryWeb |-> FALSE, sneak |-> FALSE,
   req |-> Vec(0, 0, 0), slowed |-> Vec(0, 0, 0), old |-> Vec(0, 0, 0), fin |-> Vec(0, 0, 0),
   flat |-> Vec(0, 0, 0), flatBB |-> getPlayerBB(Vec(0, 0, 0)),
   cand |-> Vec(0, 0, 0), bb |-> getPlayerBB(Vec(0, 0, 0)),
   stepTried |-> FALSE, stepKept |-> FALSE,
   velIn |-> Vec(0, 0, 0), velWeb |-> Vec(0, 0, 0), velZeroed |-> Vec(0, 0, 0),
   velOut |-> Vec(0, 0, 0), feet |-> "null"]

\* lines 206-248: the deltas after the web slow-down and the sneak edge-guard
moveDeltas(entity, world, dx0, dy0, dz0) ==
  LET w == webSlow(entity, dx0, dy0, dz0)
      g == sneakGuard(entity, world, w.dx, w.dz)
  IN [req |-> Vec(dx0, dy0, dz0), slowed |-> Vec(w.dx, w.dy, w.dz), velWeb |-> w.vel,
      old |-> Vec(g[1], w.dy, g[2])]

\* lines 250-268: the flat resolution from the entity's box
moveFlat(entity, world, m) ==
  m @@ [flat |-> flatMove(getSurroundingBBs(world, BBExtend(getPlayerBB(entity.pos),
                                                            m.old.x, m.old.y, m.old.z)),
                          getPlayerBB(entity.pos), m.old.x, m.old.y, m.old.z)]

\* lines 270-340: the step attempt, where the flat result was blocked sideways
moveStep(entity, world, m) ==
  LET tryStep == /\ stepHeight > 0
                 /\ (entity.onGround \/ (m.flat.dy # m.old.y /\ m.old.y < 0))
                 /\ (m.flat.dx # m.old.x \/ m.flat.dz # m.old.z)
  IN m @@ [stepTried |-> tryStep,
           st |-> IF tryStep
                  THEN stepMove(world, getPlayerBB(entity.pos), m.flat, m.old.x, m.old.z)
                  ELSE [res |-> m.flat, kept |-> FALSE,
                        cand |-> [m.flat EXCEPT !.dx = 0, !.dy = 0, !.dz = 0]]]

\* lines 342-358: the position of the final box, and the velocity where clamped
moveLand(entity, world, m) ==
  LET pos == setPositionToBB(m.st.res.bb)
      blockAtFeet == getBlock(world, VecOffset(pos, 0, -2000, 0))
  IN m @@ [fin |-> m.st.res, pos |-> pos, feet |-> blockAtFeet.type,
           velZeroed |-> zeroVelocity(m.velWeb, m.st.res, m.old.x, m.old.y, m.old.z,
                                      blockAtFeet, entity.control.sneak)]

\* lines 360-392: the effects of the blocks the final box is in
moveEffects(features, world, m) ==
  m @@ [eff |-> blockEffects(features, world, LatticeSeq(BBContract(m.fin.bb, 10, 10, 10)),
                             1, [vel |-> m.velZeroed, isInWeb |-> FALSE])]

\* lines 343-346 and 393-404: what moveEntity leaves in the entity, after the
\* effect of the block under it, and the record of the call
moveResult(features, entity, world, m) ==
  LET velOut == blockOnTopEffect(features, world, m.pos, m.eff.vel)
  IN [entity |-> [entity EXCEPT
                    !.pos = m.pos,
                    !.vel = velOut,
                    !.isInWeb = m.eff.isInWeb,
                    !.isCollidedHorizontally = m.fin.dx # m.old.x \/ m.fin.dz # m.old.z,
                    !.isCollidedVertically = m.fin.dy # m.old.y,
                    !.onGround = onGroundAfter(m.fin.dy # m.old.y, m.old.y)],
      tr |-> [moved |-> TRUE, entryPos |-> entity.pos, entryOnGround |-> entity.onGround,
              entryWeb |-> entity.isInWeb, sneak |-> entity.control.sneak,
              req |-> m.req, slowed |-> m.slowed,
              old |-> m.old,
              fin |-> Vec(m.fin.dx, m.fin.dy, m.fin.dz),
              flat |-> Vec(m.flat.dx, m.flat.dy, m.flat.dz), flatBB |-> m.flat.bb,
              cand |-> Vec(m.st.cand.dx, m.st.cand.dy, m.st.cand.dz),
              bb |-> m.fin.bb,
              stepTried |-> m.stepTried, stepKept |-> m.stepTried /\ m.st.kept,
              velIn |-> entity.vel, velWeb |-> m.velWeb, velZeroed |-> m.velZeroed,
              velOut |-> velOut, feet |-> m.feet]]

\* moveEntity(entity, world, dx, dy, dz): the entity after the move, and the
\* record of the call
moveEntity(features, entity, world, dx0, dy0, dz0) ==
  moveResult(features, entity, world,
    moveEffects(features, world,
      moveLand(entity, world,
        moveStep(entity, world,
          moveFlat(entity, world,
            moveDeltas(entity, world, dx0, dy0, dz0))))))

----------------------------------------------------------------------------
(* The liquid engine *)

\* isMaterialInBB(world, queryBB, types)
isMaterialInBB(world, queryBB, types) ==
  \E cell \in LatticeCells(queryBB, 0) :
    LET block == getBlockAt(world, cell)
    IN ~IsNull(block) /\ block.type \in types

\* getRenderedDepth(block), a whole number of levels
getRenderedDepth(block) ==
  IF IsNull(block) THEN -1
  ELSE IF block.type \in waterLike THEN 0
  ELSE IF block.waterlogged THEN 0
  ELSE IF block.type \notin waterIds THEN -1
  ELSE IF block.metadata >= 8 THEN 0 ELSE block.metadata

\* getLiquidHeightPcent(block), in Units
getLiquidHeightPcent(block) == RDiv((getRenderedDepth(block) + 1) * Unit, 9)

\* the four neighbours getFlow visits
FlowDirs == <<(<<0, 1>>), (<<-1, 0>>), (<<0, -1>>), (<<1, 0>>)>>

\* lines 682-696: the level difference one neighbour adds, from its block and
\* the depth of the block under it
flowLevel(curlevel, adjBlock, lower) ==
  IF getRenderedDepth(adjBlock) < 0
  THEN IF ~IsNull(adjBlock) /\ adjBlock.boundingBox # "empty" /\ lower >= 0
       THEN lower - (curlevel - 8) ELSE 0
  ELSE getRenderedDepth(adjBlock) - curlevel

\* the first loop of getFlow for one direction: the level difference f it adds
flowStep(world, block, d) ==
  flowLevel(getRenderedDepth(block),
            getBlockAt(world, <<block.position[1] + d[1], block.position[2],
                                block.position[3] + d[2]>>),
            getRenderedDepth(getBlockAt(world, <<block.position[1] + d[1],
                                                 block.position[2] - 1,
                                                 block.position[3] + d[2]>>)))

\* the second loop of getFlow for one direction: is there an obstacle beside
flowObstacle(world, block, d) ==
  LET p == block.position
      adjBlock == getBlockAt(world, <<p[1] + d[1], p[2], p[3] + d[2]>>)
      adjUpBlock == getBlockAt(world, <<p[1] + d[1], p[2] + 1, p[3] + d[2]>>)
  IN \/ (~IsNull(adjBlock) /\ adjBlock.boundingBox # "empty")
     \/ (~IsNull(adjUpBlock) /\ adjUpBlock.boundingBox # "empty")

\* "flow.normalize().translate(0, -6, 0)", once for each obstacle found
RECURSIVE flowDown(_, _)
flowDown(flow, n) ==
  IF n = 0 THEN flow
  ELSE flowDown(VecOffset(VecNormalize(flow), 0, -6 * Unit, 0), n - 1)

\* lines 688-709: the flow of the level differences f of the four neighbours,
\* pulled down once for each of the n obstacles beside a falling block
flowOf(block, f, n) ==
  VecNormalize(
    IF block.metadata >= 8
    THEN flowDown(Vec((FlowDirs[1][1] * f[1] + FlowDirs[2][1] * f[2]
                       + FlowDirs[3][1] * f[3] + FlowDirs[4][1] * f[4]) * Unit,
                      0,
                      (FlowDirs[1][2] * f[1] + FlowDirs[2][2] * f[2]
                       + FlowDirs[3][2] * f[3] + FlowDirs[4][2] * f[4]) * Unit), n)
    ELSE Vec((FlowDirs[1][1] * f[1] + FlowDirs[2][1] * f[2]
              + FlowDirs[3][1] * f[3] + FlowDirs[4][1] * f[4]) * Unit,
             0,
             (FlowDirs[1][2] * f[1] + FlowDirs[2][2] * f[2]
              + FlowDirs[3][2] * f[3] + FlowDirs[4][2] * f[4]) * Unit))

\* getFlow(world, block), in Units
getFlow(world, block) ==
  flowOf(block, [i \in 1..4 |-> flowStep(world, block, FlowDirs[i])],
         Cardinality({i \in 1..4 : flowObstacle(world, block, FlowDirs[i])}))

\* getWaterInBB(world, bb): the blocks of the list
getWaterInBB(world, bb) ==
  {block \in {getBlockAt(world, cell) : cell \in LatticeCells(bb, 0)} :
     /\ ~IsNull(block)
     /\ (block.type \in waterIds \/ block.type \in waterLike \/ block.waterlogged)
     /\ Ceil(bb.maxY) * Unit >= (block.position[2] + 1) * Unit - getLiquidHeightPcent(block)}

RECURSIVE VecSum(_)
VecSum(S) ==
  IF S = {} THEN Vec(0, 0, 0)
  ELSE LET v == CHOOSE v \in S : TRUE
           r == VecSum(S \ {v})
       IN Vec(v.flow.x + r.x, v.flow.y + r.y, v.flow.z + r.z)

\* lines 738-743: the push of the summed flow, 0.014 along its direction
applyCurrent(vel, acceleration) ==
  IF VecNorm(acceleration) > 0
  THEN VecOffset(vel, Mul(VecNormalize(acceleration).x, 140),
                 Mul(VecNormalize(acceleration).y, 140),
                 Mul(VecNormalize(acceleration).z, 140))
  ELSE vel

\* isInWaterApplyCurrent(world, bb, vel): [isInWater, vel]
isInWaterApplyCurrent(world, bb, vel) ==
  [isInWater |-> getWaterInBB(world, bb) # {},
   vel |-> applyCurrent(vel, VecSum({[at |-> block.position, flow |-> getFlow(world, block)] :
                                       block \in getWaterInBB(world, bb)}))]

\* doesNotCollide(world, pos)
doesNotCollide(world, pos) ==
  LET pBB == getPlayerBB(pos)
  IN /\ \A x \in getSurroundingBBs(world, pBB) : ~BBIntersects(pBB, x)
     /\ getWaterInBB(world, pBB) = {}

----------------------------------------------------------------------------
(* Attribute values (lib/attribute.js) and math.clamp (lib/math.js) *)

createAttributeValue(base) == [value |-> base, modifiers |-> <<>>]

addAttributeModifier(attr, modifier) ==
  [attr EXCEPT !.modifiers = Append(@, modifier)]

deleteAttributeModifier(attr, uuid) ==
  [attr EXCEPT !.modifiers = SelectSeq(@, LAMBDA m : m.uuid # uuid)]

checkAttributeModifier(attr, uuid) ==
  \E i \in 1..Len(attr.modifiers) : attr.modifiers[i].uuid = uuid

\* the sum of g(m) over the modifiers of one operation
RECURSIVE SumModifiers(_, _, _)
SumModifiers(mods, op, base) ==
  IF mods = <<>> THEN 0
  ELSE (IF Head(mods).operation = op THEN Mul(base, Head(mods).amount) ELSE 0)
       + SumModifiers(Tail(mods), op, base)

\* the modifiers of operation 2, each multiplying the total so far
RECURSIVE MultiplyTotal(_, _)
MultiplyTotal(mods, y) ==
  IF mods = <<>> THEN y
  ELSE MultiplyTotal(Tail(mods),
                     IF Head(mods).operation = 2 THEN y + Mul(y, Head(mods).amount) ELSE y)

\* getAttributeValue: operation 0 adds, 1 multiplies the base, 2 the total
getAttributeValue(attr) ==
  LET x == attr.value + SumModifiers(attr.modifiers, 0, Unit)
      y == x + SumModifiers(attr.modifiers, 1, x)
  IN MultiplyTotal(attr.modifiers, y)

\* math.clamp(min, x, max)
clamp(min, x, max) == Max2(min, Min2(x, max))

----------------------------------------------------------------------------
(* The movement engine *)

\* yaw is a number of quarter turns, pitch a number of degrees from a table
SinYaw(q) == CASE q = 0 -> 0 [] q = 1 -> Unit [] q = 2 -> 0 [] q = 3 -> -Unit
CosYaw(q) == CASE q = 0 -> Unit [] q = 1 -> 0 [] q = 2 -> -Unit [] q = 3 -> 0
SinPitch(p) == CASE p = 0 -> 0 [] p = 30 -> 5000 [] p = -30 -> -5000
CosPitch(p) == CASE p = 0 -> Unit [] p = 30 -> 8660 [] p = -30 -> 8660

\* getLookingVector(entity)
getLookingVector(entity) ==
  LET sinYaw == SinYaw(entity.yaw)
      cosYaw == CosYaw(entity.yaw)
      sinPitch == SinPitch(entity.pitch)
      cosPitch == CosPitch(entity.pitch)
  IN [pitch |-> entity.pitch, sinPitch |-> sinPitch, cosPitch |-> cosPitch,
      lookDir |-> Vec(Mul(-sinYaw, cosPitch), sinPitch, Mul(-cosYaw, cosPitch))]

\* applyHeading(entity, strafe, forward, multiplier): entity.vel afterwards
applyHeading(entity, strafe, forward, multiplier) ==
  LET speed == Hypot(strafe, forward)
      scale == Div(multiplier, Max2(speed, Unit))
      s == Mul(strafe, scale)
      f == Mul(forward, scale)
      sin == SinYaw(entity.yaw)        \* Math.sin(Math.PI - yaw)
      cos == -CosYaw(entity.yaw)       \* Math.cos(Math.PI - yaw)
  IN IF speed < 100 THEN entity.vel
     ELSE [entity.vel EXCEPT !.x = @ - (Mul(s, cos) + Mul(f, sin)),
                             !.z = @ + (Mul(f, cos) - Mul(s, sin))]

\* lines 484-500: the test of isOnLadder on the block at pos and the block under
\* it, which the trapdoor branch reads
isLadderBlock(features, block, blockBelow) ==
  IF IsNull(block) THEN [v |-> FALSE, err |-> FALSE]
  ELSE IF block.type = ladderId \/ block.type = vineId THEN [v |-> TRUE, err |-> FALSE]
  ELSE IF supportFeature(features, "climableTrapdoor") /\ block.type \in trapdoorIds
  THEN IF IsNull(blockBelow) THEN [v |-> FALSE, err |-> TRUE]   \* blockBelow.type of null
       ELSE IF blockBelow.type # ladderId THEN [v |-> FALSE, err |-> FALSE]
       ELSE IF ~block.open THEN [v |-> FALSE, err |-> FALSE]
       ELSE IF block.facing # blockBelow.facing THEN [v |-> FALSE, err |-> FALSE]
       ELSE [v |-> TRUE, err |-> FALSE]
  ELSE [v |-> FALSE, err |-> FALSE]

\* isOnLadder(world, pos): [v |-> the result, err |-> whether it threw]
isOnLadder(features, world, pos) ==
  isLadderBlock(features, getBlock(world, pos), getBlock(world, VecOffset(pos, 0, -Unit, 0)))

\* the modifier of client-side sprinting
sprintModifier == [uuid |-> sprintingUUID, amount |-> sprintSpeed, operation |-> 2]

\* lines 589-608 without the deletion of the sprinting modifier
sprintAttributeNoDelete(entity) ==
  LET given == IF entity.attributes.has THEN entity.attributes.movementSpeed
               ELSE createAttributeValue(playerSpeed)
  IN IF entity.control.sprint /\ ~checkAttributeModifier(given, sprintingUUID)
     THEN addAttributeModifier(given, sprintModifier)
     ELSE given

\* lines 589-608: playerSpeedAttribute, the sprinting modifier deleted and, when
\* control.sprint is held, added
sprintAttribute(entity) ==
  LET given == IF entity.attributes.has THEN entity.attributes.movementSpeed
               ELSE createAttributeValue(playerSpeed)
      cleared == deleteAttributeModifier(given, sprintingUUID)
  IN IF entity.control.sprint /\ ~checkAttributeModifier(cleared, sprintingUUID)
     THEN addAttributeModifier(cleared, sprintModifier)
     ELSE cleared

\* gravityMultiplier of moveEntityWithHeading
gravityMultiplier(entity) ==
  IF entity.vel.y <= 0 /\ entity.slowFalling > 0 THEN slowFalling ELSE Unit

\* what a tick returns: the entity, the record of its moveEntity call, whether
\* it threw, the speed attribute the ground branch used, and the jump's record
\* (whether the ground jump was taken, and the velocity after the jump input)
Outcome(entity, tr, err, ground, speedAttr) ==
  [entity |-> entity, tr |-> tr, err |-> err, ground |-> ground, speedAttr |-> speedAttr,
   impulse |-> FALSE, velJump |-> Vec(0, 0, 0)]

\* lines 516-534: the inertias, and the velocity after the heading
liquidHeading(entity, strafe, forward) ==
  LET inertia == IF entity.isInWater THEN waterInertia ELSE lavaInertia
      s0 == Min2(entity.depthStrider, 3) * Unit
      strider == IF entity.onGround THEN s0 ELSE Mul(s0, 5000)
      hi1 == IF entity.isInWater /\ strider > 0
             THEN inertia + RDiv(Mul(5460 - inertia, strider), 3) ELSE inertia
      acceleration == IF entity.isInWater /\ strider > 0
                      THEN liquidAcceleration + RDiv(Mul(7000 - liquidAcceleration, strider), 3)
                      ELSE liquidAcceleration
  IN [inertia |-> inertia,
      horizontalInertia |-> IF entity.isInWater /\ entity.dolphinsGrace > 0 THEN 9600 ELSE hi1,
      vel |-> applyHeading(entity, strafe, forward, acceleration)]

\* line 535: the move by the velocity after the heading
liquidMoved(features, entity, world, h) ==
  h @@ [m |-> moveEntity(features, [entity EXCEPT !.vel = h.vel], world,
                         h.vel.x, h.vel.y, h.vel.z)]

\* lines 536-539: inertia and liquid gravity
liquidSlowed(physics, entity, h) ==
  h @@ [slowed |-> Vec(Mul(h.m.entity.vel.x, h.horizontalInertia),
                       Mul(h.m.entity.vel.y, h.inertia)
                         - Mul(IF entity.isInWater THEN physics.waterGravity
                               ELSE physics.lavaGravity,
                               gravityMultiplier(entity)),
                       Mul(h.m.entity.vel.z, h.horizontalInertia))]

\* lines 541-543: the impulse out of the liquid at a wall with free space above
liquidOut(entity, world, h) ==
  LET out == h.m.entity.isCollidedHorizontally
             /\ doesNotCollide(world, VecOffset(h.m.entity.pos, h.slowed.x,
                                                h.slowed.y + 6000 - h.m.entity.pos.y
                                                  + entity.pos.y,
                                                h.slowed.z))
  IN Outcome([h.m.entity EXCEPT !.vel = IF out THEN [h.slowed EXCEPT !.y = outOfLiquidImpulse]
                                        ELSE h.slowed],
             h.m.tr, FALSE, FALSE, createAttributeValue(0))

\* lines 514-543: water and lava movement
liquidMove(features, physics, entity, world, strafe, forward) ==
  liquidOut(entity, world,
    liquidSlowed(physics, entity,
      liquidMoved(features, entity, world,
        liquidHeading(entity, strafe, forward))))

\* line 553: gravity, less of it the flatter the look
elytraGravity(v, look, gm) ==
  [v EXCEPT !.y = @ + Mul(Mul(gravity, gm),
                          -Unit + Mul(Mul(look.cosPitch, look.cosPitch), 7500))]

\* lines 556-561: moving down turns into moving along the look direction
elytraSink(v, look) ==
  LET down == Mul(Mul(v.y, -1000), Mul(look.cosPitch, look.cosPitch))
  IN IF v.y < 0 /\ look.cosPitch > 0
     THEN Vec(v.x + Div(Mul(look.lookDir.x, down), look.cosPitch), v.y + down,
              v.z + Div(Mul(look.lookDir.z, down), look.cosPitch))
     ELSE v

\* lines 563-568: looking down trades horizontal speed for height
elytraDive(v, look, horizontalSpeed) ==
  LET dive == Mul(Mul(horizontalSpeed, -look.sinPitch), 400)
  IN IF look.pitch < 0 /\ look.cosPitch > 0
     THEN Vec(v.x + Div(Mul(-look.lookDir.x, dive), look.cosPitch), v.y + Mul(dive, 32000),
              v.z + Div(Mul(-look.lookDir.z, dive), look.cosPitch))
     ELSE v

\* lines 570-573: the horizontal velocity turns toward the look direction
elytraTurn(v, look, horizontalSpeed) ==
  IF look.cosPitch > 0
  THEN Vec(v.x + Mul(Mul(Div(look.lookDir.x, look.cosPitch), horizontalSpeed) - v.x, 1000),
           v.y,
           v.z + Mul(Mul(Div(look.lookDir.z, look.cosPitch), horizontalSpeed) - v.z, 1000))
  ELSE v

\* lines 575-577
elytraDrag(v) == Vec(Mul(v.x, 9900), Mul(v.y, 9800), Mul(v.z, 9900))

\* lines 545-577: the velocity the glide moves by
elytraVelocity(entity) ==
  LET look == getLookingVector(entity)
      horizontalSpeed == Hypot(entity.vel.x, entity.vel.z)
  IN elytraDrag(
       elytraTurn(
         elytraDive(
           elytraSink(elytraGravity(entity.vel, look, gravityMultiplier(entity)), look),
           look, horizontalSpeed),
         look, horizontalSpeed))

\* lines 580-582 with the glide going on after landing
elytraLandedFlying(m) == Outcome(m.entity, m.tr, FALSE, FALSE, createAttributeValue(0))

\* lines 580-582: landing ends the glide
elytraLanded(m) ==
  Outcome([m.entity EXCEPT !.elytraFlying = IF m.entity.onGround THEN FALSE ELSE @],
          m.tr, FALSE, FALSE, createAttributeValue(0))

\* lines 544-582: elytra movement
elytraMove(features, entity, world) ==
  LET v == elytraVelocity(entity)
  IN elytraLanded(moveEntity(features, [entity EXCEPT !.vel = v], world, v.x, v.y, v.z))

\* lines 640-645 without the drag
applyGravityNoDrag(entity, vy, gm) ==
  IF entity.levitation > 0
  THEN vy + Mul(500 * entity.levitation - vy, 2000)
  ELSE vy - Mul(gravity, gm)

\* lines 640-645: levitation or gravity, then the drag, on vel.y
applyGravity(entity, vy, gm) ==
  Mul(IF entity.levitation > 0
      THEN vy + Mul(500 * entity.levitation - vy, 2000)
      ELSE vy - Mul(gravity, gm),
      airdrag)

\* lines 585-624: inertia and acceleration on the ground or in the air, and the
\* velocity after the heading
normalHeading(entity, world, strafe, forward) ==
  LET blockUnder == getBlock(world, VecOffset(entity.pos, 0, -Unit, 0))
      ground == entity.onGround /\ ~IsNull(blockUnder)
      playerSpeedAttribute == sprintAttribute(entity)
      groundInertia == Mul(blockSlipperiness(blockUnder.type), 9100)
      groundAcceleration ==
        Mul(getAttributeValue(playerSpeedAttribute),
            Div(1628, Mul(Mul(groundInertia, groundInertia), groundInertia)))
      acceleration ==
        IF ground THEN Max2(groundAcceleration, 0)
        ELSE airborneAcceleration
             + (IF entity.control.sprint THEN Mul(airborneAcceleration, 3000) ELSE 0)
  IN [ground |-> ground,
      speedAttr |-> IF ground THEN playerSpeedAttribute ELSE createAttributeValue(0),
      inertia |-> IF ground THEN groundInertia ELSE airborneInertia,
      vel |-> applyHeading(entity, strafe, forward, acceleration)]

\* line 626: isOnLadder before the move
normalLadder(features, entity, world, h) ==
  h @@ [ladder1 |-> isOnLadder(features, world, entity.pos)]

\* lines 626-632: the ladder's speed limits, and the move
normalMoved(features, entity, world, h) ==
  LET v2 == IF h.ladder1.v
            THEN Vec(clamp(-ladderMaxSpeed, h.vel.x, ladderMaxSpeed),
                     Max2(h.vel.y, IF entity.control.sneak THEN 0 ELSE -ladderMaxSpeed),
                     clamp(-ladderMaxSpeed, h.vel.z, ladderMaxSpeed))
            ELSE h.vel
  IN h @@ [m |-> IF h.ladder1.err
                 THEN [entity |-> [entity EXCEPT !.vel = h.vel], tr |-> NoMove]
                 ELSE moveEntity(features, [entity EXCEPT !.vel = v2], world,
                                 v2.x, v2.y, v2.z)]

\* line 634: isOnLadder after the move
normalClimb(features, world, h) ==
  h @@ [ladder2 |-> isOnLadder(features, world, h.m.entity.pos)]

\* lines 634-647: the climb, then gravity, drag and friction
normalEnd(features, entity, h) ==
  LET climb == h.ladder2.v /\ (h.m.entity.isCollidedHorizontally
                               \/ (supportFeature(features, "climbUsingJump")
                                   /\ entity.control.jump))
      vy1 == IF climb THEN ladderClimbSpeed ELSE h.m.entity.vel.y
  IN IF h.ladder1.err \/ h.ladder2.err
     THEN Outcome(h.m.entity, h.m.tr, TRUE, h.ground, h.speedAttr)
     ELSE Outcome([h.m.entity EXCEPT
                     !.vel = Vec(Mul(h.m.entity.vel.x, h.inertia),
                                 applyGravity(entity, vy1, gravityMultiplier(entity)),
                                 Mul(h.m.entity.vel.z, h.inertia))],
                  h.m.tr, FALSE, h.ground, h.speedAttr)

\* lines 584-648: normal movement
normalMove(features, entity, world, strafe, forward) ==
  normalEnd(features, entity,
    normalClimb(features, world,
      normalMoved(features, entity, world,
        normalLadder(features, entity, world,
          normalHeading(entity, world, strafe, forward)))))

\* moveEntityWithHeading(entity, world, strafe, forward)
moveEntityWithHeading(features, physics, entity, world, strafe, forward) ==
  IF entity.isInWater \/ entity.isInLava
  THEN liquidMove(features, physics, entity, world, strafe, forward)
  ELSE IF entity.elytraFlying THEN elytraMove(features, entity, world)
  ELSE normalMove(features, entity, world, strafe, forward)

\* lines 758-760: a component under the threshold is reset
deadZone(v) == IF Abs(v) < negligeableVelocity THEN 0 ELSE v

\* lines 762-783 with the cooldown left as it was by the jump
handleJumpNoCooldown(entity, world, vel, isInWater, isInLava) ==
  LET jt == IF entity.jumpTicks > 0 THEN entity.jumpTicks - 1 ELSE entity.jumpTicks
      blockBelow == getBlock(world, VecOffset(VecFloored(entity.pos), 0, -5000, 0))
      base == Mul(4200, IF ~IsNull(blockBelow) /\ blockBelow.type = honeyblockId
                        THEN honeyblockJumpSpeed ELSE Unit)
      vy == IF entity.jumpBoost > 0 THEN base + 1000 * entity.jumpBoost ELSE base
  IN IF entity.control.jump \/ entity.jumpQueued
     THEN IF isInWater \/ isInLava
          THEN [vel |-> [vel EXCEPT !.y = @ + 400], jumpTicks |-> jt, impulse |-> FALSE]
          ELSE IF entity.onGround /\ jt = 0
          THEN [vel |-> [vel EXCEPT !.y = vy], jumpTicks |-> jt, impulse |-> TRUE]
          ELSE [vel |-> vel, jumpTicks |-> jt, impulse |-> FALSE]
     ELSE [vel |-> vel, jumpTicks |-> 0, impulse |-> FALSE]

\* lines 762-783 with the cooldown left to run down when no jump is asked for
handleJumpNoReset(entity, world, vel, isInWater, isInLava) ==
  LET jt == IF entity.jumpTicks > 0 THEN entity.jumpTicks - 1 ELSE entity.jumpTicks
      blockBelow == getBlock(world, VecOffset(VecFloored(entity.pos), 0, -5000, 0))
      base == Mul(4200, IF ~IsNull(blockBelow) /\ blockBelow.type = honeyblockId
                        THEN honeyblockJumpSpeed ELSE Unit)
      vy == IF entity.jumpBoost > 0 THEN base + 1000 * entity.jumpBoost ELSE base
      sin == SinYaw(entity.yaw)
      cos == -CosYaw(entity.yaw)
  IN IF entity.control.jump \/ entity.jumpQueued
     THEN IF isInWater \/ isInLava
          THEN [vel |-> [vel EXCEPT !.y = @ + 400], jumpTicks |-> jt, impulse |-> FALSE]
          ELSE IF entity.onGround /\ jt = 0
          THEN [vel |-> IF entity.control.sprint
                        THEN Vec(vel.x - Mul(sin, 2000), vy, vel.z + Mul(cos, 2000))
                        ELSE [vel EXCEPT !.y = vy],
                jumpTicks |-> autojumpCooldown, impulse |-> TRUE]
          ELSE [vel |-> vel, jumpTicks |-> jt, impulse |-> FALSE]
     ELSE [vel |-> vel, jumpTicks |-> jt, impulse |-> FALSE]

\* lines 762-783 with the ground jump taken whatever the cooldown
handleJumpAnyTick(entity, world, vel, isInWater, isInLava) ==
  LET jt == IF entity.jumpTicks > 0 THEN entity.jumpTicks - 1 ELSE entity.jumpTicks
      blockBelow == getBlock(world, VecOffset(VecFloored(entity.pos), 0, -5000, 0))
      base == Mul(4200, IF ~IsNull(blockBelow) /\ blockBelow.type = honeyblockId
                        THEN honeyblockJumpSpeed ELSE Unit)
      vy == IF entity.jumpBoost > 0 THEN base + 1000 * entity.jumpBoost ELSE base
      sin == SinYaw(entity.yaw)
      cos == -CosYaw(entity.yaw)
  IN IF entity.control.jump \/ entity.jumpQueued
     THEN IF isInWater \/ isInLava
          THEN [vel |-> [vel EXCEPT !.y = @ + 400], jumpTicks |-> jt, impulse |-> FALSE]
          ELSE IF entity.onGround
          THEN [vel |-> IF entity.control.sprint
                        THEN Vec(vel.x - Mul(sin, 2000), vy, vel.z + Mul(cos, 2000))
                        ELSE [vel EXCEPT !.y = vy],
                jumpTicks |-> autojumpCooldown, impulse |-> TRUE]
          ELSE [vel |-> vel, jumpTicks |-> jt, impulse |-> FALSE]
     ELSE [vel |-> vel, jumpTicks |-> 0, impulse |-> FALSE]

\* lines 762-783: the jump input; [vel, jumpTicks, impulse]
handleJump(entity, world, vel, isInWater, isInLava) ==
  LET jt == IF entity.jumpTicks > 0 THEN entity.jumpTicks - 1 ELSE entity.jumpTicks
      blockBelow == getBlock(world, VecOffset(VecFloored(entity.pos), 0, -5000, 0))
      base == Mul(4200, IF ~IsNull(blockBelow) /\ blockBelow.type = honeyblockId
                        THEN honeyblockJumpSpeed ELSE Unit)          \* Math.fround(0.42)
      vy == IF entity.jumpBoost > 0 THEN base + 1000 * entity.jumpBoost ELSE base
      sin == SinYaw(entity.yaw)
      cos == -CosYaw(entity.yaw)
  IN IF entity.control.jump \/ entity.jumpQueued
     THEN IF isInWater \/ isInLava
          THEN [vel |-> [vel EXCEPT !.y = @ + 400], jumpTicks |-> jt, impulse |-> FALSE]
          ELSE IF entity.onGround /\ jt = 0
          THEN [vel |-> IF entity.control.sprint
                        THEN Vec(vel.x - Mul(sin, 2000), vy, vel.z + Mul(cos, 2000))
                        ELSE [vel EXCEPT !.y = vy],
                jumpTicks |-> autojumpCooldown, impulse |-> TRUE]
          ELSE [vel |-> vel, jumpTicks |-> jt, impulse |-> FALSE]
     ELSE [vel |-> vel, jumpTicks |-> 0, impulse |-> FALSE]

\* lines 795-805: the firework rocket; [vel, fireworkRocketDuration]
fireworkThrust(entity, vel, elytraFlying) ==
  LET lookDir == getLookingVector(entity).lookDir
      push(l, v) == v + Mul(l, 1000) + Mul(Mul(l, 15000) - v, 5000)
  IN IF entity.fireworkRocketDuration > 0
     THEN IF ~elytraFlying THEN [vel |-> vel, fireworkRocketDuration |-> 0]
          ELSE [vel |-> Vec(push(lookDir.x, vel.x), push(lookDir.y, vel.y),
                            push(lookDir.z, vel.z)),
                fireworkRocketDuration |-> entity.fireworkRocketDuration - 1]
     ELSE [vel |-> vel, fireworkRocketDuration |-> entity.fireworkRocketDuration]

\* a control as the number 0 or 1 it is used as
Num(b) == IF b THEN 1 ELSE 0

\* lines 751-760: water and its current, lava, and the velocity's dead zone
playerMedium(entity, world) ==
  LET cur == isInWaterApplyCurrent(world, BBContract(getPlayerBB(entity.pos), 10, 4010, 10),
                                   entity.vel)
  IN [isInWater |-> cur.isInWater,
      isInLava |-> isMaterialInBB(world, BBContract(getPlayerBB(entity.pos), 1000, 4000, 1000),
                                  lavaIds),
      vel |-> Vec(deadZone(cur.vel.x), deadZone(cur.vel.y), deadZone(cur.vel.z))]

\* lines 762-783: the jump input
playerJump(entity, world, p) ==
  p @@ [j |-> handleJump(entity, world, p.vel, p.isInWater, p.isInLava)]

\* lines 783-805: strafe and forward, the elytra and the rocket; ready is the
\* entity moveEntityWithHeading is called with
playerReady(entity, p) ==
  LET s0 == (Num(entity.control.right) - Num(entity.control.left)) * 9800
      f0 == (Num(entity.control.forward) - Num(entity.control.back)) * 9800
      elytraFlying == /\ entity.elytraFlying /\ entity.elytraEquipped
                      /\ ~entity.onGround /\ entity.levitation = 0
      fw == fireworkThrust(entity, p.j.vel, elytraFlying)
  IN p @@ [strafe |-> IF entity.control.sneak THEN Mul(s0, sneakSpeed) ELSE s0,
           forward |-> IF entity.control.sneak THEN Mul(f0, sneakSpeed) ELSE f0,
           ready |-> [entity EXCEPT !.isInWater = p.isInWater, !.isInLava = p.isInLava,
                                    !.vel = fw.vel, !.jumpTicks = p.j.jumpTicks,
                                    !.jumpQueued = FALSE, !.elytraFlying = elytraFlying,
                                    !.fireworkRocketDuration = fw.fireworkRocketDuration]]

\* line 807: the move, with the jump's record
playerMoved(features, physics, world, p) ==
  [moveEntityWithHeading(features, physics, p.ready, world, p.strafe, p.forward)
     EXCEPT !.impulse = p.j.impulse, !.velJump = p.j.vel]

\* physics.simulatePlayer(entity, world): an Outcome, with the jump's record
simulatePlayer(features, physics, entity, world) ==
  playerMoved(features, physics, world,
    playerReady(entity,
      playerJump(entity, world,
        playerMedium(entity, world))))

----------------------------------------------------------------------------
(* Inputs: versions, feature tables, worlds, entities, controls *)

\* the number of simulatePlayer calls a behaviour makes
MaxTicks == 2

\* more steps of 0.05 than the edge-guard takes to bring a delta to 0
MaxShrinks == 8

\* the number of simulatePlayer calls of a behaviour of held jumps: more than
\* the cooldown, so that a second jump can follow the first
MaxJumpTicks == 13

V1_8 == <<1, 8, 9>>
V1_13 == <<1, 13, 2>>
V1_16 == <<1, 16, 5>>

One(cond) == [isArray |-> FALSE, items |-> <<cond>>]
All(conds) == [isArray |-> TRUE, items |-> conds]

\* lib/features.json, the table the constructor reads
featuresJson ==
  << [name |-> "independentLiquidGravity",
      versions |-> <<One(VStr(<<1, 8>>)), One(VStr(<<1, 9>>)), One(VStr(<<1, 10>>)),
                     One(VStr(<<1, 11>>)), One(VStr(<<1, 12>>))>>],
     [name |-> "proportionalLiquidGravity", versions |-> <<One(CondStr(">=", <<1, 13>>))>>],
     [name |-> "velocityBlocksOnCollision", versions |-> <<One(CondStr("<", <<1, 15>>))>>],
     [name |-> "velocityBlocksOnTop", versions |-> <<One(CondStr(">=", <<1, 15>>))>>],
     [name |-> "climbUsingJump", versions |-> <<One(CondStr(">=", <<1, 14>>))>>],
     [name |-> "climableTrapdoor", versions |-> <<One(CondStr(">=", <<1, 9>>))>> ] >>

\* a table after the example of the comment of class FeatureList, with liquid
\* gravity features that overlap at 1.14
exampleJson ==
  << [name |-> "example",
      versions |-> <<All(<<CondStr(">=", <<1, 12>>), CondStr("<", <<1, 14>>)>>),
                     One(CondStr("==", <<1, 19, 1>>)), One(CondStr(">", <<1, 20>>))>>],
     [name |-> "independentLiquidGravity", versions |-> <<One(CondStr("==", <<1, 14>>))>>],
     [name |-> "proportionalLiquidGravity", versions |-> <<One(VStr(<<1, 14>>))>>],
     [name |-> "climbUsingJump",
      versions |-> <<All(<<VStr(<<1, 19>>), CondStr("<=", <<1, 19, 1>>)>>), All(<<>>)>>],
     [name |-> "climableTrapdoor", versions |-> <<>>] >>

\* a table out of date: liquid gravity is known up to 1.16 only
staleJson ==
  << [name |-> "independentLiquidGravity",
      versions |-> <<All(<<CondStr(">=", <<1, 8>>), CondStr("<=", <<1, 12, 2>>)>>)>>],
     [name |-> "proportionalLiquidGravity",
      versions |-> <<All(<<CondStr(">", <<1, 12, 2>>), CondStr("<", <<1, 17>>)>>)>>],
     [name |-> "velocityBlocksOnTop", versions |-> <<One(VStr(<<1, 20>>)), One(VStr(<<1, 19>>))>>] >>

Tables == {featuresJson, exampleJson, staleJson}

Versions == {<<1, 8, 9>>, <<1, 12>>, <<1, 12, 2>>, <<1, 13>>, <<1, 14>>, <<1, 14, 1>>,
             <<1, 16, 5>>, <<1, 19>>, <<1, 19, 1>>, <<1, 19, 2>>, <<1, 20>>, <<1, 20, 1>>}

FeatureNames == {"example", "independentLiquidGravity", "proportionalLiquidGravity",
                 "velocityBlocksOnCollision", "velocityBlocksOnTop", "climbUsingJump",
                 "climableTrapdoor"}

\* entity.control
Control(forward, back, left, right, jump, sprint, sneak) ==
  [forward |-> forward, back |-> back, left |-> left, right |-> right,
   jump |-> jump, sprint |-> sprint, sneak |-> sneak]

NoControl == Control(FALSE, FALSE, FALSE, FALSE, FALSE, FALSE, FALSE)

\* new PlayerState(bot, control): an entity at pos with velocity vel
NewEntity(pos, vel, onGround) ==
  [pos |-> pos, vel |-> vel, onGround |-> onGround,
   isInWater |-> FALSE, isInLava |-> FALSE, isInWeb |-> FALSE,
   isCollidedHorizontally |-> FALSE, isCollidedVertically |-> onGround,
   elytraFlying |-> FALSE, jumpTicks |-> 0, jumpQueued |-> FALSE,
   fireworkRocketDuration |-> 0,
   attributes |-> [has |-> FALSE, movementSpeed |-> createAttributeValue(playerSpeed)],
   yaw |-> 0, pitch |-> 0, control |-> NoControl,
   jumpBoost |-> 0, dolphinsGrace |-> 0, slowFalling |-> 0, levitation |-> 0,
   depthStrider |-> 0, elytraEquipped |-> FALSE]

\* a position and a velocity given in Units
P(x, y, z) == Vec(x, y, z)

\* a world with nothing in it: getBlock returns air, or no block at all
EmptyWorld == [blocks |-> <<>>, rest |-> "air"]
UnloadedWorld == [blocks |-> <<>>, rest |-> "null"]

\* flat ground at y = 63 (scenario S2)
FlatWorld ==
  [blocks |-> [c \in {<<x, 63, z>> : x \in -1..1, z \in -1..1} |-> "stone"],
   rest |-> "air"]

\* a floor at y = 0 with a slime and an ice block; around the cell <<1, 1, 1>> a
\* wall to the east, a cobweb to the west and a ceiling above; a slab at <<3, 1, 2>>
PlayWorld ==
  [blocks |-> (<<0, 0, 3>> :> "slime" @@ <<0, 0, 0>> :> "ice"
               @@ <<2, 1, 1>> :> "stone" @@ <<2, 2, 1>> :> "stone"
               @@ <<3, 1, 2>> :> "slab" @@ <<1, 3, 1>> :> "stone"
               @@ <<0, 1, 1>> :> "cobweb"
               @@ [c \in {<<x, 0, z>> : x \in 0..3, z \in 0..3} |-> "stone"]),
   rest |-> "air"]

\* a single block in a world that is otherwise not loaded (scenario S5)
PillarWorld == [blocks |-> (<<1, 0, 1>> :> "stone"), rest |-> "null"]

\* a trapdoor with no block below it, and a ladder with a trapdoor on top
LadderWorld ==
  [blocks |-> (<<1, 1, 1>> :> "trapdoor_n"
               @@ <<3, 0, 1>> :> "stone" @@ <<3, 1, 1>> :> "ladder_n"
               @@ <<3, 2, 1>> :> "trapdoor_n" @@ <<3, 0, 2>> :> "stone"
               @@ <<3, 1, 2>> :> "air" @@ <<3, 2, 2>> :> "air" @@ <<3, 3, 1>> :> "air"),
   rest |-> "null"]

\* a pool with a current and a waterfall, lava, bubble columns, soul sand, honey
PoolWorld ==
  [blocks |-> (<<0, 1, 0>> :> "water" @@ <<1, 1, 0>> :> "water" @@ <<0, 1, 1>> :> "water"
               @@ <<1, 1, 1>> :> "water3" @@ <<1, 2, 0>> :> "water_fall"
               @@ <<2, 1, 0>> :> "stone" @@ <<2, 1, 1>> :> "wet_slab"
               @@ <<0, 1, 3>> :> "lava"
               @@ <<3, 1, 3>> :> "bubble_up" @@ <<3, 1, 4>> :> "bubble_up"
               @@ <<3, 1, 2>> :> "bubble_down"
               @@ <<3, 2, 2>> :> "water"
               @@ <<2, 0, 3>> :> "soul_sand" @@ <<1, 0, 3>> :> "honey"
               @@ [c \in {<<x, 0, z>> : x \in 0..3, z \in 0..3} |-> "stone"]),
   rest |-> "air"]

\* what the host feeds a tick: the controls and whether a jump is queued
Input(control, jumpQueued) == [control |-> control, jumpQueued |-> jumpQueued]

Inputs ==
  { Input(NoControl, FALSE),
    Input(NoControl, TRUE),
    Input(Control(TRUE, FALSE, FALSE, FALSE, FALSE, FALSE, FALSE), FALSE),
    Input(Control(TRUE, FALSE, FALSE, FALSE, FALSE, TRUE, FALSE), FALSE),
    Input(Control(FALSE, FALSE, FALSE, FALSE, TRUE, FALSE, FALSE), FALSE),
    Input(Control(TRUE, FALSE, FALSE, FALSE, FALSE, FALSE, TRUE), FALSE),
    Input(Control(FALSE, FALSE, FALSE, TRUE, TRUE, TRUE, FALSE), FALSE) }

\* a scenario: the version and world a simulator is built for, and an entity
Scenario(version, world, entity) == [version |-> version, world |-> world, entity |-> entity]

\* the movementSpeed attribute as a server sends it while the player sprints
ServerSprinting ==
  [has |-> TRUE,
   movementSpeed |-> addAttributeModifier(createAttributeValue(playerSpeed), sprintModifier)]

\* ... and with a speed effect (operation 2, amount 0.2) but no sprint
ServerSpeed ==
  [has |-> TRUE,
   movementSpeed |-> addAttributeModifier(createAttributeValue(playerSpeed),
                       [uuid |-> "91aeaa56-376b-4498-935b-2f7f68070635",
                        amount |-> 2000, operation |-> 2])]

FreeFallScenarios ==
  {Scenario(V1_16, w, NewEntity(P(0, 100000, 0), v, FALSE)) :
     w \in {EmptyWorld, UnloadedWorld},
     v \in {Vec(0, 0, 0), Vec(1000, -784, 0)}}

FlatScenarios ==
  {Scenario(V1_16, FlatWorld,
            [NewEntity(P(5000, 640000, 5000), Vec(0, v, 0), TRUE)
               EXCEPT !.jumpTicks = jt, !.attributes = a]) :
     v \in {0, -784}, jt \in {0, 1, 5},
     a \in {NewEntity(P(0, 0, 0), Vec(0, 0, 0), TRUE).attributes, ServerSprinting, ServerSpeed}}

PlayScenarios ==
  {Scenario(V1_13, PlayWorld, [NewEntity(p, v, TRUE) EXCEPT !.yaw = q]) :
     p \in {P(15000, 10000, 15000), P(17000, 10000, 15000), P(35000, 10000, 33000),
            P(5000, 10000, 35000), P(17000, 10000, 7000)},
     v \in {Vec(0, -784, 0), Vec(2000, -784, -1000), Vec(-3000, 0, 1000),
            Vec(2000, -784, 1000)},
     q \in {0, 3}}
  \cup
  {Scenario(V1_13, PlayWorld, NewEntity(p, v, FALSE)) :
     p \in {P(5000, 13000, 35000), P(15000, 10500, 15000), P(35000, 12000, 5000)},
     v \in {Vec(0, -5000, 0), Vec(2500, 4200, -2500)}}
  \cup
  \* at the edge of the cobweb, as a tick that ended in it leaves the entity
  {Scenario(V1_13, PlayWorld,
            [NewEntity(P(12950, 10000, 15000), v, TRUE) EXCEPT !.isInWeb = TRUE]) :
     v \in {Vec(2000, -784, 0), Vec(0, -784, 0)}}

PillarScenarios ==
  {Scenario(V1_16, PillarWorld, [NewEntity(p, Vec(0, -784, 0), TRUE) EXCEPT !.yaw = q]) :
     p \in {P(15000, 10000, 15000), P(15000, 10000, 7400)}, q \in {0, 1}}

LadderScenarios ==
  {Scenario(ver, LadderWorld, NewEntity(p, Vec(0, -784, 0), FALSE)) :
     ver \in {V1_8, V1_13, V1_16},
     p \in {P(15000, 10000, 15000), P(15000, 21000, 15000),
            P(35000, 10000, 15000), P(35000, 20000, 15000)}}

PoolScenarios ==
  {Scenario(ver, PoolWorld, e) :
     ver \in {V1_8, V1_16},
     e \in {NewEntity(P(10000, 10000, 10000), Vec(0, 0, 0), FALSE),
            [NewEntity(P(16900, 10000, 5000), Vec(500, 0, 0), FALSE)
               EXCEPT !.depthStrider = 2],
            NewEntity(P(5000, 10000, 35000), Vec(0, -784, 0), FALSE),
            NewEntity(P(35000, 10000, 33000), Vec(0, 0, 0), FALSE),
            NewEntity(P(35000, 10000, 40000), Vec(0, 0, 0), FALSE),
            [NewEntity(P(25000, 8750, 35000), Vec(1000, -784, 1000), TRUE)
               EXCEPT !.slowFalling = 1],
            [NewEntity(P(25000, 30000, 15000), Vec(3000, -2000, 0), FALSE)
               EXCEPT !.elytraFlying = TRUE, !.elytraEquipped = TRUE, !.pitch = -30,
                      !.fireworkRocketDuration = 1],
            [NewEntity(P(15000, 10000, 35000), Vec(0, -784, 0), TRUE)
               EXCEPT !.levitation = 1, !.jumpBoost = 1]}}
  \cup
  \* gliding just over the floor, with and without the elytra still worn
  {Scenario(V1_16, PoolWorld,
            [NewEntity(P(25000, 10500, 25000), Vec(1000, -2000, 0), FALSE)
               EXCEPT !.elytraFlying = TRUE, !.elytraEquipped = eq, !.levitation = lev]) :
     eq \in BOOLEAN, lev \in {0, 1}}

\* on the ground under the low ceiling of PlayWorld, where a jump lands again
\* after a few ticks, and on the open floor of FlatWorld
JumpScenarios ==
  {Scenario(V1_13, PlayWorld,
            [NewEntity(P(15000, 10000, 15000), Vec(0, -784, 0), TRUE) EXCEPT !.jumpTicks = jt]) :
     jt \in {0, 3, autojumpCooldown}}
  \cup
  {Scenario(V1_16, FlatWorld, NewEntity(P(5000, 640000, 5000), Vec(0, -784, 0), TRUE))}

\* jump held, jump held while walking, nothing, and a queued jump
JumpInputs ==
  { Input(Control(FALSE, FALSE, FALSE, FALSE, TRUE, FALSE, FALSE), FALSE),
    Input(NoControl, FALSE),
    Input(NoControl, TRUE) }

Scenarios == FreeFallScenarios \cup FlatScenarios \cup PlayScenarios \cup PillarScenarios
             \cup LadderScenarios \cup PoolScenarios

----------------------------------------------------------------------------
(* The state machine *)

\* what trace holds: tr is the record of the moveEntity call, before the entity
\* the call was made with
Trace(before, out, query, answer, heldFor) ==
  [before |-> before, tr |-> out.tr, err |-> out.err, ground |-> out.ground,
   speedAttr |-> out.speedAttr, impulse |-> out.impulse, velJump |-> out.velJump,
   query |-> query, answer |-> answer, heldFor |-> heldFor]

\* heldFor: whether jump was held in every tick since the last ground jump,
\* and the number of these ticks; NotHeld before the first ground jump and
\* once jump was let go
NotHeld == [on |-> FALSE, ticks |-> 0]

HeldFor(was, jump, impulse) ==
  IF impulse THEN [on |-> TRUE, ticks |-> 0]
  ELSE IF was.on /\ jump THEN [on |-> TRUE, ticks |-> was.ticks + 1]
  ELSE NotHeld

NoOutcome(entity) ==
  [tr |-> NoMove, err |-> FALSE, ground |-> FALSE, speedAttr |-> createAttributeValue(0),
   impulse |-> FALSE, velJump |-> entity.vel]

\* a simulator not yet built, for a version and a feature table
Unbuilt(version, table, world) ==
  [version |-> VersionObj(version), table |-> table, features |-> {},
   physics |-> [ok |-> FALSE, error |-> "", waterGravity |-> 0, lavaGravity |-> 0],
   world |-> world]

\* Physics(mcData, world) for the version, with the table the library ships
Built(version, world) ==
  LET features == FeatureList(featuresJson, VersionObj(version))
  IN [version |-> VersionObj(version), table |-> featuresJson, features |-> features,
      physics |-> Physics(features), world |-> world]

\* the state after construction: a simulator and the entity of the first tick
Init ==
  \E sc \in Scenarios :
    /\ sim = Built(sc.version, sc.world)
    /\ player = sc.entity
    /\ trace = Trace(sc.entity, NoOutcome(sc.entity), "", FALSE, NotHeld)
    /\ ticks = 0
    /\ pc = "run"

\* one call of physics.simulatePlayer(entity, world), the host having set the
\* controls and the jump queue
TickOn(inputs, bound) ==
  /\ pc = "run"
  /\ ticks < bound
  /\ \E in \in inputs :
       \E before \in {[player EXCEPT !.control = in.control, !.jumpQueued = in.jumpQueued]} :
         \E out \in {simulatePlayer(sim.features, sim.physics, before, sim.world)} :
           /\ player' = out.entity
           /\ trace' = Trace(before, out, "", FALSE,
                             HeldFor(trace.heldFor, in.control.jump, out.impulse))
  /\ ticks' = ticks + 1
  /\ UNCHANGED <<sim, pc>>

Tick == TickOn(Inputs, MaxTicks)

Next == Tick

Spec == Init /\ [][Next]_vars

\* the state after construction, for an entity about to jump for a while
InitJump ==
  \E sc \in JumpScenarios :
    /\ sim = Built(sc.version, sc.world)
    /\ player = sc.entity
    /\ trace = Trace(sc.entity, NoOutcome(sc.entity), "", FALSE, NotHeld)
    /\ ticks = 0
    /\ pc = "run"

\* one call of physics.simulatePlayer(entity, world), the host holding,
\* queueing or letting go of jump
JumpTick == TickOn(JumpInputs, MaxJumpTicks)

NextJump == JumpTick

SpecJump == InitJump /\ [][NextJump]_vars

\* before any construction: a version and a feature table, no simulator yet
InitFeatures ==
  \E v \in Versions, t \in Tables :
    LET nobody == NewEntity(P(0, 0, 0), Vec(0, 0, 0), FALSE)
    IN /\ sim = Unbuilt(v, t, EmptyWorld)
       /\ player = nobody
       /\ trace = Trace(nobody, NoOutcome(nobody), "", FALSE, NotHeld)
       /\ ticks = 0
       /\ pc = "new"

\* new FeatureList(feats, version)
NewFeatureList ==
  /\ pc = "new"
  /\ sim' = [sim EXCEPT !.features = FeatureList(sim.table, sim.version)]
  /\ pc' = "featured"
  /\ UNCHANGED <<player, trace, ticks>>

\* supportFeature(featureName) on the list built
SupportFeature ==
  /\ pc = "featured"
  /\ \E name \in FeatureNames :
       trace' = [trace EXCEPT !.query = name,
                              !.answer = supportFeature(sim.features, name)]
  /\ UNCHANGED <<sim, player, ticks, pc>>

\* Physics(mcData, world): the feature list of the version, then the liquid
\* gravity selection, which may throw
NewPhysics ==
  /\ pc = "new"
  /\ LET features == FeatureList(sim.table, sim.version)
         physics == Physics(features)
     IN /\ sim' = [sim EXCEPT !.features = features, !.physics = physics]
        /\ pc' = IF physics.ok THEN "built" ELSE "failed"
  /\ UNCHANGED <<player, trace, ticks>>

NextFeatures == NewFeatureList \/ SupportFeature \/ NewPhysics

SpecFeatures == InitFeatures /\ [][NextFeatures]_vars

----------------------------------------------------------------------------
(* Properties of the collision engine, over the record of the last tick *)

\* the tick just taken reached moveEntity
Moved == pc = "run" /\ ticks > 0 /\ trace.tr.moved

\* the colliders moveEntity queried: around the flat move and, when the step
\* was tried, around the step
Colliders ==
  LET oldBB == getPlayerBB(trace.tr.entryPos)
      old == trace.tr.old
  IN getSurroundingBBs(sim.world, BBExtend(oldBB, old.x, old.y, old.z))
     \cup (IF trace.tr.stepTried
           THEN getSurroundingBBs(sim.world, BBExtend(oldBB, old.x, stepHeight, old.z))
           ELSE {})

\* the entity's box intersected no collider when moveEntity was entered
EntryFree ==
  LET oldBB == getPlayerBB(trace.tr.entryPos)
  IN \A b \in getSurroundingBBs(sim.world, oldBB) \cup Colliders : ~BBIntersects(oldBB, b)

ClampedX == trace.tr.fin.x # trace.tr.old.x
ClampedY == trace.tr.fin.y # trace.tr.old.y
ClampedZ == trace.tr.fin.z # trace.tr.old.z

\* C1 (as the specification states it): no tick raises; a null block below a
\* climbable trapdoor makes isOnLadder answer false.  The code dereferences
\* the null block, so this is violated.
C1_NoTickRaises == pc = "run" => ~trace.err

\* C2: an entity whose box intersected no collider on entry to moveEntity has,
\* at the end of moveEntity, a box that intersects none of the colliders
\* queried for the move, whether the flat or the step candidate was taken.
C2_NoPenetration ==
  (Moved /\ EntryFree) =>
    /\ trace.tr.bb = getPlayerBB(player.pos)
    /\ \A b \in Colliders : ~BBIntersects(getPlayerBB(player.pos), b)

\* a move clamped by a collider, from a free position
C2_Witness ==
  /\ Moved /\ EntryFree
  /\ ClampedX /\ ClampedY
  /\ Colliders # {}

\* C3: after moveEntity, onGround implies that the move was clamped
\* vertically and that the requested vertical delta was negative.
C3_GroundCoherence ==
  Moved => (player.onGround =>
              /\ player.isCollidedVertically
              /\ ClampedY
              /\ trace.tr.req.y < 0)

\* an upward move clamped by a ceiling, which does not set onGround
C3_Witness ==
  /\ Moved
  /\ trace.tr.req.y > 0 /\ ClampedY
  /\ player.isCollidedVertically /\ ~player.onGround

\* C4 (as the specification states it): vel.x is zero exactly when the x delta
\* was clamped, and vel.z exactly when the z delta was.
C4_ZeroIffClamped ==
  Moved => /\ (trace.tr.velOut.x = 0 <=> ClampedX)
           /\ (trace.tr.velOut.z = 0 <=> ClampedZ)

\* C4 (amended): a clamped x delta leaves vel.x zero and a clamped z delta
\* leaves vel.z zero; on an axis that was not clamped the zeroing step leaves
\* the component as it was, whatever happened on the other axis.
C4_AxisDecoupled ==
  Moved => /\ (ClampedX => trace.tr.velOut.x = 0)
           /\ (ClampedZ => trace.tr.velOut.z = 0)
           /\ (~ClampedX => trace.tr.velZeroed.x = trace.tr.velWeb.x)
           /\ (~ClampedZ => trace.tr.velZeroed.z = trace.tr.velWeb.z)

\* x clamped by a wall while z keeps its velocity
C4_Witness ==
  /\ Moved
  /\ ClampedX /\ ~ClampedZ
  /\ trace.tr.velOut.x = 0 /\ trace.tr.velWeb.z # 0 /\ trace.tr.velOut.z # 0

\* the block the bounce looks at: 0.2 below the final position
BlockAtFeet == getBlock(sim.world, VecOffset(player.pos, 0, -2000, 0))

----------------------------------------------------------------------------
(* Properties of the sprinting modifier *)

\* how many modifiers of an attribute carry the sprinting UUID
SprintCount(attr) ==
  Cardinality({i \in 1..Len(attr.modifiers) : attr.modifiers[i].uuid = sprintingUUID})

\* the attribute the tick started from, as if sprint had never been held
NeverSprinted ==
  deleteAttributeModifier(IF trace.before.attributes.has
                          THEN trace.before.attributes.movementSpeed
                          ELSE createAttributeValue(playerSpeed), sprintingUUID)

\* C6: the sprinting modifier is deleted and added again at most once in each
\* tick on the ground, so the attribute never carries it twice, carries it
\* exactly when sprint is held, and after a release has the modifiers and the
\* value of an attribute that never sprinted; the tick leaves the entity's own
\* attribute as it was.
C6_SprintIdempotent ==
  (pc = "run" /\ ticks > 0) =>
    /\ player.attributes = trace.before.attributes
    /\ SprintCount(player.attributes.movementSpeed) <= 1
    /\ trace.ground =>
         /\ SprintCount(trace.speedAttr) = (IF trace.before.control.sprint THEN 1 ELSE 0)
         /\ deleteAttributeModifier(trace.speedAttr, sprintingUUID) = NeverSprinted
         /\ ~trace.before.control.sprint =>
              /\ trace.speedAttr = NeverSprinted
              /\ getAttributeValue(trace.speedAttr) = getAttributeValue(NeverSprinted)
         /\ trace.before.control.sprint =>
              getAttributeValue(trace.speedAttr)
                = getAttributeValue(NeverSprinted) + Mul(getAttributeValue(NeverSprinted), sprintSpeed)

\* a tick on the ground with sprint released, from an attribute that carried
\* the sprinting modifier
C6_Witness ==
  /\ pc = "run" /\ ticks > 0 /\ trace.ground
  /\ ~trace.before.control.sprint
  /\ trace.before.attributes.has
  /\ SprintCount(trace.before.attributes.movementSpeed) = 1
  /\ SprintCount(trace.speedAttr) = 0

----------------------------------------------------------------------------
(* Properties of the feature list and of the construction *)

\* the place of the first space of a condition, 0 if it has none
SpaceAt(cond) ==
  IF \E i \in 1..Len(cond) : cond[i] = " "
  THEN CHOOSE i \in 1..Len(cond) : cond[i] = " " /\ \A j \in 1..(i - 1) : cond[j] # " "
  ELSE 0

\* a condition holds: a bare string names the major version, "pred ver" is
\* the version's predicate applied to ver
ConditionHolds(version, cond) ==
  IF SpaceAt(cond) = 0 THEN cond = version.majorVersion
  ELSE VersionPredicate(version, SubSeq(cond, 1, SpaceAt(cond) - 1),
                        SubSeq(cond, SpaceAt(cond) + 1, Len(cond)))

\* an entry is true: its one condition holds, or all conditions of its array
EntryHolds(version, entry) ==
  IF entry.isArray
  THEN \A i \in 1..Len(entry.items) : ConditionHolds(version, entry.items[i])
  ELSE ConditionHolds(version, entry.items[1])

\* some entry of the feature's versions list is true
Enabled(table, version, name) ==
  \E i \in 1..Len(table) :
    /\ table[i].name = name
    /\ \E j \in 1..Len(table[i].versions) : EntryHolds(version, table[i].versions[j])

\* C7: a feature is enabled for a version iff at least one entry of its
\* versions list is true; "== 1.14" matches 1.14 but not 1.14.1, the bare
\* string "1.14" matches every 1.14.x.
C7_FeatureResolution ==
  pc = "featured" =>
    /\ \A name \in FeatureNames :
         supportFeature(sim.features, name) <=> Enabled(sim.table, sim.version, name)
    /\ trace.query # "" => trace.answer = Enabled(sim.table, sim.version, trace.query)
    /\ (sim.table = exampleJson /\ sim.version.majorVersion = VStr(<<1, 14>>)) =>
         /\ supportFeature(sim.features, "proportionalLiquidGravity")
         /\ supportFeature(sim.features, "independentLiquidGravity")
              <=> sim.version.minecraftVersion = VStr(<<1, 14>>)

\* version 1.14.1 asked for the feature listed as "== 1.14", beside the one
\* listed as "1.14"
C7_Witness ==
  /\ pc = "featured"
  /\ sim.table = exampleJson /\ sim.version = VersionObj(<<1, 14, 1>>)
  /\ trace.query = "independentLiquidGravity" /\ ~trace.answer
  /\ supportFeature(sim.features, "proportionalLiquidGravity")

\* C8: construction fails with "No liquid gravity settings" exactly when
\* neither liquid gravity feature is enabled; with independentLiquidGravity
\* both gravities are 0.02, even if proportionalLiquidGravity is enabled too;
\* with proportionalLiquidGravity alone they are gravity/16 and gravity/4.
C8_LiquidGravity ==
  LET independent == Enabled(sim.table, sim.version, "independentLiquidGravity")
      proportional == Enabled(sim.table, sim.version, "proportionalLiquidGravity")
  IN pc \in {"built", "failed"} =>
       /\ pc = "failed" <=> (~independent /\ ~proportional)
       /\ pc = "failed" => ~sim.physics.ok /\ sim.physics.error = "No liquid gravity settings"
       /\ (pc = "built" /\ independent) =>
            sim.physics.waterGravity = 200 /\ sim.physics.lavaGravity = 200
       /\ (pc = "built" /\ ~independent) =>
            /\ sim.physics.waterGravity * 16 = gravity
            /\ sim.physics.lavaGravity * 4 = gravity

\* a construction for a version with both liquid gravity features enabled
C8_Witness ==
  /\ pc = "built"
  /\ Enabled(sim.table, sim.version, "independentLiquidGravity")
  /\ Enabled(sim.table, sim.version, "proportionalLiquidGravity")
  /\ sim.physics.waterGravity = 200

----------------------------------------------------------------------------
(* The scenarios S1 and S2 *)

\* no effect, no web, no elytra, no rocket on the entity the tick started from
Plain(entity) ==
  /\ entity.jumpBoost = 0 /\ entity.levitation = 0 /\ entity.slowFalling = 0
  /\ entity.dolphinsGrace = 0 /\ entity.depthStrider = 0
  /\ ~entity.isInWeb /\ ~entity.elytraFlying /\ entity.fireworkRocketDuration = 0

\* S1: a tick was taken in an empty world from (0, 10, 0) with the velocity
\* (0, vy, 0), all controls false
FreeFall(vy) ==
  /\ pc = "run" /\ ticks > 0
  /\ sim.world \in {EmptyWorld, UnloadedWorld}
  /\ trace.before.pos = P(0, 10 * Unit, 0)
  /\ trace.before.vel = Vec(0, vy, 0)
  /\ trace.before.control = NoControl /\ ~trace.before.jumpQueued
  /\ Plain(trace.before)

\* C9 (as the specification states it): after the tick of S1 the velocity is
\* (0, -0.0784, 0), pos.y is 10 - 0.0784 and onGround is false.
C9_FreeFallAsStated ==
  FreeFall(0) => /\ player.vel = Vec(0, -784, 0)
                 /\ player.pos.y = 10 * Unit - 784
                 /\ ~player.onGround

\* C9 (amended): after the tick of S1 the velocity is (0, -0.0784, 0) and
\* onGround is false, and the position is still (0, 10, 0): the move uses the
\* velocity the tick started with, gravity and drag come after it; pos.y is
\* 10 - 0.0784 after the second tick.
C9_FreeFallTick ==
  /\ FreeFall(0) => /\ player.vel = Vec(0, Mul(-gravity, airdrag), 0)
                    /\ player.vel.y = -784
                    /\ trace.tr.moved /\ trace.tr.req = Vec(0, 0, 0)
                    /\ player.pos = trace.before.pos
                    /\ ~player.onGround
  /\ FreeFall(-784) => /\ player.pos = P(0, 10 * Unit - 784, 0)
                       /\ player.vel = Vec(0, Mul(-784 - gravity, airdrag), 0)
                       /\ ~player.onGround

\* the state after the tick of S1
C9_Witness ==
  /\ FreeFall(0) /\ ticks = 1
  /\ player.vel.y = -784 /\ player.pos.y = 10 * Unit

\* S2: a tick was taken by an entity at rest on the ground, on a solid block
\* that is not honey, out of liquid, jump held with no cooldown and no jump
\* boost, with no ladder at its feet and nothing above to stop the jump
GroundJump ==
  LET before == trace.before
      under == getBlock(sim.world, VecOffset(before.pos, 0, -5000, 0))
  IN /\ pc = "run" /\ ticks > 0 /\ ~trace.err
     /\ before.onGround /\ before.vel = Vec(0, 0, 0)
     /\ before.control.jump /\ before.jumpTicks = 0
     /\ Plain(before)
     /\ ~player.isInWater /\ ~player.isInLava
     /\ ~IsNull(under) /\ under.boundingBox = "block" /\ under.type # honeyblockId
     /\ ~isOnLadder(sim.features, sim.world, before.pos).v
     /\ ~isOnLadder(sim.features, sim.world, player.pos).v
     /\ trace.tr.moved /\ ~ClampedY

\* C10 (as the specification states it): after the tick of S2 vel.y is the
\* float32 0.42, jumpTicks is 10, onGround is false and pos.y has risen by 0.42.
C10_JumpAsStated ==
  GroundJump => /\ player.vel.y = 4200
                /\ player.jumpTicks = 10
                /\ ~player.onGround
                /\ player.pos.y = trace.before.pos.y + 4200

\* C10 (amended): in the tick of S2 the jump sets vel.y to the float32 0.42
\* before the move, so pos.y rises by 0.42, jumpTicks is 10 and onGround is
\* false; gravity and drag follow the move, so vel.y after the tick is
\* (0.42 - 0.08) * 0.98 = 0.3332.
C10_JumpTick ==
  GroundJump => /\ trace.impulse /\ trace.velJump.y = 4200
                /\ trace.tr.req.y = 4200
                /\ player.pos.y = trace.before.pos.y + 4200
                /\ player.jumpTicks = autojumpCooldown
                /\ ~player.onGround
                /\ player.vel.y = Mul(4200 - gravity, airdrag)
                /\ player.vel.y = 3332

\* the state after the tick of S2 on the flat floor
C10_Witness ==
  /\ GroundJump /\ sim.world = FlatWorld
  /\ trace.before.pos.y = 64 * Unit /\ player.pos.y = 64 * Unit + 4200
  /\ player.jumpTicks = 10 /\ player.vel.y = 3332

----------------------------------------------------------------------------
(* The sneak edge-guard *)

\* some block has a shape in the cells getSurroundingBBs walks for the box
Supported(bb) == getSurroundingBBs(sim.world, bb) # {}

\* the tick just taken entered moveEntity sneaking, on the ground and out of a
\* web, from a box with a block in its surrounding set
SneakMove ==
  /\ Moved /\ ~trace.err
  /\ trace.tr.sneak /\ trace.tr.entryOnGround
  /\ Supported(getPlayerBB(trace.tr.entryPos))

\* the entity stands on the single block of the pillar world
OnPillar ==
  /\ sim.world = PillarWorld
  /\ trace.tr.entryPos.y = Unit
  /\ BBIntersects(BBOffset(getPlayerBB(trace.tr.entryPos), 0, -Unit, 0),
                  ShapeBB(FullCube, <<1, 0, 1>>))

RECURSIVE shrunkBy(_, _)
shrunkBy(d, k) == IF k = 0 THEN d ELSE shrunkBy(sneakShrink(d), k - 1)

----------------------------------------------------------------------------
(* Bubble columns *)

\* the cells of the final box, contracted by 0.001, that hold a bubble column
BubbleCells ==
  {c \in LatticeCells(BBContract(trace.tr.bb, 10, 10, 10), 0) :
     getBlockAt(sim.world, c).type = bubblecolumnId}

\* an upward bubble column (metadata # 0) with air above it
UpwardAtSurface(c) ==
  /\ getBlockAt(sim.world, c).type = bubblecolumnId
  /\ getBlockAt(sim.world, c).metadata # 0
  /\ getBlockAt(sim.world, <<c[1], c[2] + 1, c[3]>>).type = "air"

\* S7: the move of the tick just taken ended in upward bubble columns at the
\* surface, and in no other bubble column
InUpwardColumn ==
  /\ Moved /\ ~trace.err
  /\ BubbleCells # {}
  /\ \A c \in BubbleCells : UpwardAtSurface(c)

\* vel.y := min(1.8, vel.y + 0.1), n times
RECURSIVE pushedUp(_, _)
pushedUp(vy, n) ==
  IF n = 0 THEN vy
  ELSE pushedUp(Min2(bubbleColumnSurfaceDrag.maxUp, vy + bubbleColumnSurfaceDrag.up), n - 1)

\* C12 (as the specification states it): the block effects after the move
\* change vel.y by exactly one application of vel.y := min(1.8, vel.y + 0.1),
\* however many bubble-column cells the contracted box overlaps.
C12_OnePushAsStated ==
  InUpwardColumn => trace.tr.velOut.y = pushedUp(trace.tr.velZeroed.y, 1)

\* C12 (amended): the block effects after the move apply
\* vel.y := min(1.8, vel.y + 0.1) once for each upward surface bubble-column
\* cell the contracted box overlaps; so the effect raises vel.y by at most 0.1
\* for each such cell, and never to more than 1.8 unless it was above already.
C12_PushPerCell ==
  InUpwardColumn =>
    /\ trace.tr.velOut.y = pushedUp(trace.tr.velZeroed.y, Cardinality(BubbleCells))
    /\ trace.tr.velOut.y <= trace.tr.velZeroed.y
                              + Cardinality(BubbleCells) * bubbleColumnSurfaceDrag.up
    /\ trace.tr.velOut.y <= Max2(trace.tr.velZeroed.y, bubbleColumnSurfaceDrag.maxUp)

\* a box over two upward columns, pushed up twice in one tick
C12_Witness ==
  /\ InUpwardColumn
  /\ Cardinality(BubbleCells) = 2
  /\ trace.tr.velOut.y = trace.tr.velZeroed.y + 2 * bubbleColumnSurfaceDrag.up

----------------------------------------------------------------------------
(* The jump counter *)

\* a tick was taken
Ticked == pc = "run" /\ ticks > 0

\* C13 (as the specification states it): in every tick in which control.jump
\* is not held, jumpTicks is 0 at the end of the tick, regardless of
\* jumpQueued; and jumpQueued is false at the end of every tick.
C13_ResetAsStated ==
  Ticked => /\ ~player.jumpQueued
            /\ ~trace.before.control.jump => player.jumpTicks = 0

\* C13 (amended): jumpQueued is false at the end of every tick, and in every
\* tick in which control.jump is not held and no jump is queued, jumpTicks is
\* 0 at the end of the tick, whatever onGround and the liquid state are; a
\* queued jump counts as a held one, so that with jump not held and a jump
\* queued the counter is decremented, or set to the cooldown by a ground jump.
C13_JumpReset ==
  Ticked =>
    /\ ~player.jumpQueued
    /\ (~trace.before.control.jump /\ ~trace.before.jumpQueued) =>
         /\ player.jumpTicks = 0
         /\ ~trace.impulse
    /\ (~trace.before.control.jump /\ trace.before.jumpQueued) =>
         player.jumpTicks = IF trace.impulse THEN autojumpCooldown
                            ELSE Max2(trace.before.jumpTicks - 1, 0)

\* a cooldown still running is reset by a tick with no jump held or queued
C13_Witness ==
  /\ Ticked
  /\ ~trace.before.control.jump /\ ~trace.before.jumpQueued
  /\ trace.before.jumpTicks > 0
  /\ player.jumpTicks = 0 /\ ~player.jumpQueued

----------------------------------------------------------------------------
(* The step-up *)

\* dx^2 + dz^2 of a resolution
Progress(r) == r.dx * r.dx + r.dz * r.dz

\* the tick just taken attempted a step
StepTried == Moved /\ ~trace.err /\ trace.tr.stepTried

\* the two step candidates of the move just made, from the record of the call
StepPair ==
  LET oldBB == getPlayerBB(trace.tr.entryPos)
      old == trace.tr.old
  IN stepCandidates(getSurroundingBBs(sim.world, BBExtend(oldBB, old.x, stepHeight, old.z)),
                    oldBB, [dx |-> trace.tr.flat.x, dz |-> trace.tr.flat.z], old.x, old.z)

\* the candidate of the pair with the larger progress (the second on a tie)
StepBest == IF Progress(StepPair.c1) > Progress(StepPair.c2) THEN StepPair.c1 ELSE StepPair.c2

\* the move started on top of the full blocks of a floor and ended with the box
\* over a 0.5-high slab lying on that floor
OverSlab ==
  /\ trace.tr.entryPos.y = Floor(trace.tr.entryPos.y) * Unit
  /\ \E c \in LatticeCells(BBContract(trace.tr.bb, 10, 10, 10), -1) :
       /\ getBlockAt(sim.world, c).type = "stone_slab"
       /\ c[2] * Unit = trace.tr.entryPos.y
       /\ BBIntersects(BBOffset(trace.tr.bb, 0, -Unit, 0), ShapeBB(FullCube, c))

\* C14: whenever moveEntity attempts a step, the result it keeps is the flat
\* result restored exactly (dx, dy, dz and box) when the better candidate's
\* dx^2 + dz^2 is not strictly greater than the flat result's, and otherwise
\* the candidate with the larger dx^2 + dz^2, moved back down as far as the
\* colliders allow; the final horizontal progress is never less than the flat
\* move's, and a step kept from the ground against a 0.5-high slab raises
\* pos.y by 0.5.
C14_StepSelection ==
  StepTried =>
    LET tr == trace.tr
        flat == [dx |-> tr.flat.x, dz |-> tr.flat.z]
        fin == [dx |-> tr.fin.x, dz |-> tr.fin.z]
    IN /\ stepHeight > 0
       /\ tr.entryOnGround \/ (tr.flat.y # tr.old.y /\ tr.old.y < 0)
       /\ tr.flat.x # tr.old.x \/ tr.flat.z # tr.old.z
       /\ Progress(StepBest) >= Progress(StepPair.c1)
       /\ Progress(StepBest) >= Progress(StepPair.c2)
       /\ IF Progress(StepBest) > Progress(flat)
          THEN /\ tr.stepKept
               /\ tr.fin.x = StepBest.dx /\ tr.fin.z = StepBest.dz
               /\ tr.fin.y <= 0 /\ tr.fin.y >= -StepBest.dy
               /\ tr.bb = BBOffset(StepBest.bb, 0, tr.fin.y, 0)
          ELSE /\ ~tr.stepKept
               /\ tr.fin = tr.flat
               /\ tr.bb = tr.flatBB
       /\ Progress(fin) >= Progress(flat)
       /\ (tr.stepKept /\ tr.entryOnGround /\ OverSlab) =>
            player.pos.y = tr.entryPos.y + 5000

\* S4: a step kept from the ground onto the slab, further than the flat move
C14_Witness ==
  /\ StepTried /\ trace.tr.stepKept /\ trace.tr.entryOnGround
  /\ player.pos.y = trace.tr.entryPos.y + 5000
  /\ Progress([dx |-> trace.tr.fin.x, dz |-> trace.tr.fin.z])
       > Progress([dx |-> trace.tr.flat.x, dz |-> trace.tr.flat.z])
  /\ OverSlab

\* a step tried and given up for the flat result
C14_FlatKept == StepTried /\ ~trace.tr.stepKept

----------------------------------------------------------------------------
(* The cobweb flag *)

\* a cobweb occupies a cell the final box, contracted by 0.001, overlaps
EndsInWeb ==
  \E c \in LatticeCells(BBContract(trace.tr.bb, 10, 10, 10), 0) :
    getBlockAt(sim.world, c).type = webId

\* the move of the last tick applied the web slow-down: the requested deltas
\* scaled by 0.25, 0.05, 0.25 and the velocity zeroed before the resolution
WebSlowed ==
  /\ trace.tr.slowed = Vec(Mul(trace.tr.req.x, 2500), Mul(trace.tr.req.y, 500),
                           Mul(trace.tr.req.z, 2500))
  /\ trace.tr.velWeb = Vec(0, 0, 0)

\* ... or did not: deltas and velocity as they were requested
NotWebSlowed ==
  /\ trace.tr.slowed = trace.tr.req
  /\ trace.tr.velWeb = trace.tr.velIn

\* the cobweb flag over the move of the last tick
WebMove ==
  /\ IF trace.tr.entryWeb THEN WebSlowed ELSE NotWebSlowed
  /\ trace.tr.entryWeb = trace.before.isInWeb
  /\ player.isInWeb <=> EndsInWeb

\* C15: moveEntity applies the web slow-down in a tick if and only if isInWeb
\* was true on entry, and leaves isInWeb true at the end of the move if and
\* only if a cobweb occupies a cell overlapped by the final box contracted by
\* 0.001; the flag on entry to the move of a tick is the flag the previous
\* tick ended with, so the slow-down of tick n+1 happens exactly when the
\* entity ended tick n inside a cobweb.
C15_WebLifecycle ==
  [][(pc = "run" /\ trace'.tr.moved /\ ~trace'.err) =>
       /\ WebMove'
       /\ trace'.tr.entryWeb = player.isInWeb
       /\ (Moved /\ ~trace.err) => (trace'.tr.entryWeb <=> EndsInWeb)]_vars

\* a second tick, slowed by the web the first tick ended in
C15_Witness ==
  /\ Moved /\ ~trace.err /\ ticks = 2
  /\ trace.tr.entryWeb /\ WebSlowed
  /\ trace.tr.req.x # 0 /\ trace.tr.req.y # 0 /\ trace.tr.velIn # Vec(0, 0, 0)
  /\ EndsInWeb

\* a tick that left the web: slowed, and ending with the flag clear
C15_Left ==
  /\ Moved /\ ~trace.err
  /\ trace.tr.entryWeb /\ WebSlowed /\ ~player.isInWeb

----------------------------------------------------------------------------
(* The elytra flag *)

\* C16: simulatePlayer never changes elytraFlying from false to true;
\* elytraFlying is true at the end of a tick only if on entry it was true,
\* elytraEquipped was true, onGround was false and levitation was 0; and when
\* the tick ran the elytra regime (the entity in neither water nor lava),
\* elytraFlying true at the end of the tick implies onGround false at its end.
C16_ElytraFlag ==
  Ticked =>
    /\ ~trace.before.elytraFlying => ~player.elytraFlying
    /\ player.elytraFlying =>
         /\ trace.before.elytraFlying /\ trace.before.elytraEquipped
         /\ ~trace.before.onGround /\ trace.before.levitation = 0
    /\ (player.elytraFlying /\ ~player.isInWater /\ ~player.isInLava) => ~player.onGround
    /\ player.elytraEquipped = trace.before.elytraEquipped

\* a glide that landed: the elytra regime moved the entity onto the ground
\* and cleared the flag
C16_Witness ==
  /\ Ticked /\ Moved
  /\ trace.before.elytraFlying /\ trace.before.elytraEquipped
  /\ ~trace.before.onGround /\ trace.before.levitation = 0
  /\ ~player.isInWater /\ ~player.isInLava
  /\ player.onGround /\ ~player.elytraFlying

\* a glide that goes on
C16_Gliding == Ticked /\ player.elytraFlying /\ ~player.onGround

\* a glide ended by the elytra taken off, and one ended by levitation
C16_TakenOff ==
  Ticked /\ trace.before.elytraFlying /\ ~trace.before.elytraEquipped /\ ~player.elytraFlying

----------------------------------------------------------------------------
(* The jump cooldown *)

\* C17: from jumpTicks in 0..10, jumpTicks is in 0..10 after every tick; a
\* ground-jump impulse (vel.y set to the jump base, jumpTicks to 10) occurs
\* only in a tick where the entity is on the ground on entry, in neither water
\* nor lava, and jump is held or queued; and while jump is held continuously,
\* two ground-jump impulses are at least 10 ticks apart.
C17_JumpCooldown ==
  [][(pc = "run" /\ player.jumpTicks \in 0..autojumpCooldown) =>
       /\ player'.jumpTicks \in 0..autojumpCooldown
       /\ trace'.impulse =>
            /\ trace'.before.onGround
            /\ ~player'.isInWater /\ ~player'.isInLava
            /\ trace'.before.control.jump \/ trace'.before.jumpQueued
            /\ player'.jumpTicks = autojumpCooldown
            /\ trace'.tr.req.y = trace'.velJump.y
       /\ (trace'.impulse /\ trace.heldFor.on /\ trace'.before.control.jump) =>
            trace.heldFor.ticks + 1 >= autojumpCooldown]_vars

\* a second ground jump, 10 ticks after the first, jump held all the while
C17_Witness ==
  /\ Ticked /\ trace.impulse /\ ticks > autojumpCooldown
  /\ trace.before.control.jump /\ trace.before.jumpTicks = 1
  /\ trace.heldFor.on /\ player.jumpTicks = autojumpCooldown

\* a second ground jump sooner than that, jump let go in between
C17_Released == Ticked /\ trace.impulse /\ ticks \in 2..autojumpCooldown

=============================================================================
